---- MODULE Spec2Model ----
(***************************************************************************)
(* FlowBoard: the board store (useBoard), the App handlers that drive it   *)
(* and the chatbot's delayed classify-and-apply step.                      *)
(*                                                                         *)
(* A task is a JavaScript object, modelled as a function from the keys it  *)
(* has to their values, so that `{...prev.tasks[id], ...updates}` of a     *)
(* missing task yields a record with only the keys of `updates`.           *)
(* Timestamps are integers (days); null is Null.  Task ids (uuid v4) are   *)
(* integers handed out by a counter, never reused.                         *)
(* The description and dueDate fields are carried only by the tasks an     *)
(* edit command of the chatbot has set them on (ISO dates are day          *)
(* numbers).                                                               *)
(***************************************************************************)
EXTENDS Integers, Sequences, FiniteSets, TLC

VARIABLES
    board,        \* useBoard: const [board, setBoard]
    history,      \* useBoard: const [history, setHistory]
    future,       \* useBoard: const [future, setFuture]
    editingTask,  \* App: the task object captured when the edit modal opened
    deleteTaskId, \* App: id captured when the delete confirmation opened
    isTyping,     \* Chatbot: a reply timer is pending
    chatInput,    \* Chatbot: currentInput captured by the pending timer
    chatBoard,    \* Chatbot: the board captured by the pending timer's closure
    now,          \* Date.now()
    nextId,       \* number of uuids handed out so far
    faulted,      \* an uncaught TypeError unmounted the React tree
    saved,        \* localStorage: the blob stored under STORAGE_KEY
    saveTimer,    \* useBoard: the board captured by the pending auto-save timer
    ops           \* store mutations issued so far (bounds the exploration)

vars == <<board, history, future, editingTask, deleteTaskId,
          isTyping, chatInput, chatBoard, now, nextId, faulted,
          saved, saveTimer, ops>>

store == <<board, history, future>>

----------------------------------------------------------------------------
(* Bounds of the model *)

MaxId == 3       \* uuids that can be handed out
MaxOps == 2      \* store mutations issued in one run
MaxCaptures == 1 \* closures holding a captured task or board at one time

----------------------------------------------------------------------------
(* Program constants *)

\* pushHistory keeps h.slice(-49) and appends one board
HistoryKeep == 49
\* Date.now() of the session, in days: the oldest seed task is 10 days old
StartTime == 10

Null == 0 - 1
NoId == 0
NoTask == [none |-> TRUE]
NoInput == [kind |-> "none"]
NoTimer == [none |-> TRUE]

ColumnIds == {"todo", "in-progress", "done"}
ColumnOrder == <<"todo", "in-progress", "done">>
ColumnTitle == [c \in ColumnIds |->
                  IF c = "todo" THEN "To Do"
                  ELSE IF c = "in-progress" THEN "In Progress" ELSE "Done"]

(* Inputs the user types or picks, drawn from small sets *)
InColumns == ColumnIds      \* the column picked in the modal
InPriority == "medium"      \* the priority picked in the modal
ChatPriority == "low"       \* the priority named in a chat message
ChatTag == "ui"             \* the tag named in a chat message
ChatCreateColumns == {"todo", "done"}

----------------------------------------------------------------------------
(* JavaScript array helpers, 0-based as in the source *)

Min(a, b) == IF a < b THEN a ELSE b
Max(a, b) == IF a > b THEN a ELSE b

\* Array.prototype.indexOf
IndexOf(s, x) ==
    IF \E i \in 1..Len(s) : s[i] = x
    THEN (CHOOSE i \in 1..Len(s) : s[i] = x /\ \A j \in 1..(i-1) : s[j] # x) - 1
    ELSE 0 - 1

\* the start index splice() really uses
SpliceStart(len, start) ==
    IF start < 0 THEN Max(len + start, 0) ELSE Min(start, len)

\* s.splice(start, 1)
SpliceDelete(s, start) ==
    LET k == SpliceStart(Len(s), start)
    IN  [i \in 1..(IF k < Len(s) THEN Len(s) - 1 ELSE Len(s)) |->
            IF i <= k THEN s[i] ELSE s[i + 1]]

\* a push where the splice should be: the index is ignored
SpliceInsertAppends(s, start, x) == Append(s, x)

\* s.splice(start, 0, x)
SpliceInsert(s, start, x) ==
    LET k == SpliceStart(Len(s), start)
    IN  [i \in 1..(Len(s) + 1) |->
            IF i <= k THEN s[i] ELSE IF i = k + 1 THEN x ELSE s[i - 1]]

\* s.filter(id => id !== x)
FilterOut(s, x) == SelectSeq(s, LAMBDA e : e # x)

\* s.slice(-n)
SliceLast(s, n) ==
    IF Len(s) <= n THEN s ELSE SubSeq(s, Len(s) - n + 1, Len(s))

\* s.slice(0, -1)
DropLast(s) == IF Len(s) = 0 THEN s ELSE SubSeq(s, 1, Len(s) - 1)

Last(s) == s[Len(s)]

Range(s) == {s[i] : i \in 1..Len(s)}

----------------------------------------------------------------------------
(* Boards *)

Has(t, k) == k \in DOMAIN t

\* JavaScript truthiness of task.completedAt (absent and null are falsy)
CompletedTruthy(t) == Has(t, "completedAt") /\ t.completedAt # Null

MkColumns(lists) ==
    [c \in ColumnIds |-> [id |-> c, title |-> ColumnTitle[c], taskIds |-> lists[c]]]

EmptyBoard ==
    [tasks |-> <<>>,
     columns |-> MkColumns([c \in ColumnIds |-> <<>>]),
     columnOrder |-> ColumnOrder]

WithTaskIds(b, c, ids) ==
    [b.columns EXCEPT ![c] = [b.columns[c] EXCEPT !.taskIds = ids]]

\* { ...tasks, [id]: t }
PutTask(tasks, id, t) ==
    [k \in (DOMAIN tasks) \cup {id} |-> IF k = id THEN t ELSE tasks[k]]

\* delete tasks[id]
DropTask(tasks, id) == [k \in (DOMAIN tasks) \ {id} |-> tasks[k]]

\* createDefaultBoard: sampleTasks, reduced to the first 'todo' sample and the
\* 'done' sample (age and doneAge are the days subtracted from Date.now())
sampleTasks ==
    << [title |-> "a", priority |-> "high", tags |-> <<"design", "ui">>,
        age |-> 3, doneAge |-> Null, columnId |-> "todo"],
       [title |-> "a", priority |-> "high", tags |-> <<"devops">>,
        age |-> 10, doneAge |-> 7, columnId |-> "done"] >>

createDefaultBoard(firstId, t) ==
    LET n == Len(sampleTasks)
        idOf(i) == firstId + i - 1
        sample(i) ==
            [id |-> idOf(i), title |-> sampleTasks[i].title,
             priority |-> sampleTasks[i].priority,
             tags |-> sampleTasks[i].tags,
             createdAt |-> t - sampleTasks[i].age,
             completedAt |-> IF sampleTasks[i].doneAge = Null THEN Null
                             ELSE t - sampleTasks[i].doneAge,
             columnId |-> sampleTasks[i].columnId]
        idsOf(c) ==
            LET idx == SelectSeq([i \in 1..n |-> i],
                                 LAMBDA i : sampleTasks[i].columnId = c)
            IN  [j \in 1..Len(idx) |-> idOf(idx[j])]
    IN  [tasks |-> [k \in {idOf(i) : i \in 1..n} |-> sample(k - firstId + 1)],
         columns |-> MkColumns([c \in ColumnIds |-> idsOf(c)]),
         columnOrder |-> ColumnOrder]

----------------------------------------------------------------------------
(* Persistence: the blob under STORAGE_KEY *)

\* localStorage.getItem returned null: nothing was stored
NoBlob == [kind |-> "absent"]
\* stored text that JSON.parse rejects
GarbageBlob == [kind |-> "garbage"]
\* JSON.parse("null")
JsonNull == [null |-> TRUE]
\* JSON.parse of an object that has none of tasks, columns, columnOrder
JsonOther == [version |-> "x"]

\* JSON.stringify: a board has only strings, null and arrays in it, and the
\* text parses back to an equal value
JSONstringify(v) == [kind |-> "json", value |-> v]
JSONparseThrows(blob) == blob.kind = "garbage"
JSONparse(blob) == blob.value

\* loadBoard falls back to createDefaultBoard: the blob is falsy or JSON.parse threw
loadBoardFallsBack(blob) == blob.kind = "absent" \/ JSONparseThrows(blob)

\* loadBoard: whatever JSON.parse returns is the board
loadBoard(blob, firstId, t) ==
    IF loadBoardFallsBack(blob) THEN createDefaultBoard(firstId, t)
    ELSE JSONparse(blob)

\* saveBoard: localStorage.setItem(STORAGE_KEY, JSON.stringify(board))
saveBoard(b) == JSONstringify(b)

\* the keys App reads of the board on every render
BoardKeys == {"tasks", "columns", "columnOrder"}

----------------------------------------------------------------------------
(* useBoard: the state updaters *)

\* a pushHistory that keeps one entry too many
pushHistoryKeepsOneMore(hf, prev) ==
    <<Append(SliceLast(hf[1], HistoryKeep + 1), prev), <<>>>>

\* a pushHistory that forgets setFuture([])
pushHistoryKeepsFuture(hf, prev) ==
    <<Append(SliceLast(hf[1], HistoryKeep), prev), hf[2]>>

\* pushHistory, on the pair hf of the undo history and the redo stack:
\* setHistory(h => [...h.slice(-49), prev]); setFuture([])
pushHistory(hf, prev) ==
    <<Append(SliceLast(hf[1], HistoryKeep), prev), <<>>>>

\* an addTask that puts the new id first in the column
addTaskUpdaterPrepends(prev, id, columnId, title, priority, tags, t) ==
    LET task == [id |-> id, title |-> title, priority |-> priority, tags |-> tags,
                 createdAt |-> t,
                 completedAt |-> IF columnId = "done" THEN t ELSE Null,
                 columnId |-> columnId]
    IN  [prev EXCEPT
            !.tasks = PutTask(prev.tasks, id, task),
            !.columns = WithTaskIds(prev, columnId,
                                    <<id>> \o prev.columns[columnId].taskIds)]

\* addTask: the setBoard updater
addTaskUpdater(prev, id, columnId, title, priority, tags, t) ==
    LET task == [id |-> id, title |-> title, priority |-> priority, tags |-> tags,
                 createdAt |-> t,
                 completedAt |-> IF columnId = "done" THEN t ELSE Null,
                 columnId |-> columnId]
    IN  [prev EXCEPT
            !.tasks = PutTask(prev.tasks, id, task),
            !.columns = WithTaskIds(prev, columnId,
                                    Append(prev.columns[columnId].taskIds, id))]

\* { ...old, ...updates } where old may be undefined
Merge(tasks, taskId, updates) ==
    IF taskId \in DOMAIN tasks THEN updates @@ tasks[taskId] ELSE updates

\* an updateTask that also lists the card in the column named by updates
updateTaskUpdaterListsCard(prev, taskId, updates) ==
    LET merged == [prev EXCEPT !.tasks =
                      PutTask(prev.tasks, taskId, Merge(prev.tasks, taskId, updates))]
    IN  IF /\ Has(updates, "columnId")
           /\ taskId \notin Range(prev.columns[updates.columnId].taskIds)
        THEN [merged EXCEPT !.columns =
                WithTaskIds(prev, updates.columnId,
                            Append(prev.columns[updates.columnId].taskIds, taskId))]
        ELSE merged

\* updateTask: the setBoard updater
updateTaskUpdater(prev, taskId, updates) ==
    [prev EXCEPT !.tasks = PutTask(prev.tasks, taskId, Merge(prev.tasks, taskId, updates))]

\* deleteTask: the updater throws reading prev.columns[undefined].taskIds
deleteTaskThrows(prev, taskId) ==
    /\ taskId \in DOMAIN prev.tasks
    /\ ~Has(prev.tasks[taskId], "columnId")

\* deleteTask: the setBoard updater
deleteTaskUpdater(prev, taskId) ==
    IF taskId \notin DOMAIN prev.tasks THEN prev
    ELSE LET c == prev.tasks[taskId].columnId
         IN  [prev EXCEPT
                !.tasks = DropTask(prev.tasks, taskId),
                !.columns = WithTaskIds(prev, c, FilterOut(prev.columns[c].taskIds, taskId))]

\* moveTask: the updater throws reading prev.columns[undefined].taskIds or
\* prev.tasks[taskId].completedAt of a missing task
moveTaskThrows(prev, taskId, sourceCol, destCol) ==
    \/ sourceCol \notin ColumnIds
    \/ taskId \notin DOMAIN prev.tasks /\ destCol = "done"

\* a moveTask that keeps completedAt when the task leaves 'done'
moveTaskUpdaterKeepsStamp(prev, taskId, sourceCol, destCol, destIndex, t) ==
    LET src == prev.columns[sourceCol].taskIds
        sourceTaskIds == SpliceDelete(src, IndexOf(src, taskId))
        destBase == IF sourceCol = destCol THEN sourceTaskIds
                    ELSE prev.columns[destCol].taskIds
        destTaskIds == SpliceInsert(destBase, destIndex, taskId)
        old == IF taskId \in DOMAIN prev.tasks THEN prev.tasks[taskId] ELSE <<>>
        completedAt ==
            IF destCol = "done" /\ ~CompletedTruthy(old) THEN t
            ELSE old.completedAt
        updatedTask == [columnId |-> destCol, completedAt |-> completedAt] @@ old
        cols1 == [prev.columns EXCEPT ![sourceCol] =
                    [prev.columns[sourceCol] EXCEPT !.taskIds =
                        IF sourceCol = destCol THEN destTaskIds ELSE sourceTaskIds]]
        cols2 == IF sourceCol # destCol
                 THEN [cols1 EXCEPT ![destCol] =
                         [prev.columns[destCol] EXCEPT !.taskIds = destTaskIds]]
                 ELSE cols1
    IN  [prev EXCEPT !.tasks = PutTask(prev.tasks, taskId, updatedTask),
                     !.columns = cols2]

\* a moveTask that stamps completedAt on every move into 'done'
moveTaskUpdaterRestamps(prev, taskId, sourceCol, destCol, destIndex, t) ==
    LET src == prev.columns[sourceCol].taskIds
        sourceTaskIds == SpliceDelete(src, IndexOf(src, taskId))
        destBase == IF sourceCol = destCol THEN sourceTaskIds
                    ELSE prev.columns[destCol].taskIds
        destTaskIds == SpliceInsert(destBase, destIndex, taskId)
        old == IF taskId \in DOMAIN prev.tasks THEN prev.tasks[taskId] ELSE <<>>
        completedAt ==
            IF destCol = "done" THEN t ELSE Null
        updatedTask == [columnId |-> destCol, completedAt |-> completedAt] @@ old
        cols1 == [prev.columns EXCEPT ![sourceCol] =
                    [prev.columns[sourceCol] EXCEPT !.taskIds =
                        IF sourceCol = destCol THEN destTaskIds ELSE sourceTaskIds]]
        cols2 == IF sourceCol # destCol
                 THEN [cols1 EXCEPT ![destCol] =
                         [prev.columns[destCol] EXCEPT !.taskIds = destTaskIds]]
                 ELSE cols1
    IN  [prev EXCEPT !.tasks = PutTask(prev.tasks, taskId, updatedTask),
                     !.columns = cols2]

\* a moveTask that reads destIndex against the list before the removal
moveTaskUpdaterInsertsFirst(prev, taskId, sourceCol, destCol, destIndex, t) ==
    LET src == prev.columns[sourceCol].taskIds
        sourceTaskIds == SpliceDelete(src, IndexOf(src, taskId))
        destBase == IF sourceCol = destCol THEN sourceTaskIds
                    ELSE prev.columns[destCol].taskIds
        at == IndexOf(src, taskId)
        destTaskIds ==
            IF sourceCol = destCol
            THEN SpliceDelete(SpliceInsert(src, destIndex, taskId),
                              IF destIndex <= at THEN at + 1 ELSE at)
            ELSE SpliceInsert(destBase, destIndex, taskId)
        old == IF taskId \in DOMAIN prev.tasks THEN prev.tasks[taskId] ELSE <<>>
        completedAt ==
            IF destCol = "done" /\ ~CompletedTruthy(old) THEN t
            ELSE IF destCol # "done" THEN Null ELSE old.completedAt
        updatedTask == [columnId |-> destCol, completedAt |-> completedAt] @@ old
        cols1 == [prev.columns EXCEPT ![sourceCol] =
                    [prev.columns[sourceCol] EXCEPT !.taskIds =
                        IF sourceCol = destCol THEN destTaskIds ELSE sourceTaskIds]]
        cols2 == IF sourceCol # destCol
                 THEN [cols1 EXCEPT ![destCol] =
                         [prev.columns[destCol] EXCEPT !.taskIds = destTaskIds]]
                 ELSE cols1
    IN  [prev EXCEPT !.tasks = PutTask(prev.tasks, taskId, updatedTask),
                     !.columns = cols2]

\* moveTask: the setBoard updater
moveTaskUpdater(prev, taskId, sourceCol, destCol, destIndex, t) ==
    LET src == prev.columns[sourceCol].taskIds
        sourceTaskIds == SpliceDelete(src, IndexOf(src, taskId))
        destBase == IF sourceCol = destCol THEN sourceTaskIds
                    ELSE prev.columns[destCol].taskIds
        destTaskIds == SpliceInsert(destBase, destIndex, taskId)
        old == IF taskId \in DOMAIN prev.tasks THEN prev.tasks[taskId] ELSE <<>>
        completedAt ==
            IF destCol = "done" /\ ~CompletedTruthy(old) THEN t
            ELSE IF destCol # "done" THEN Null ELSE old.completedAt
        updatedTask == [columnId |-> destCol, completedAt |-> completedAt] @@ old
        cols1 == [prev.columns EXCEPT ![sourceCol] =
                    [prev.columns[sourceCol] EXCEPT !.taskIds =
                        IF sourceCol = destCol THEN destTaskIds ELSE sourceTaskIds]]
        cols2 == IF sourceCol # destCol
                 THEN [cols1 EXCEPT ![destCol] =
                         [prev.columns[destCol] EXCEPT !.taskIds = destTaskIds]]
                 ELSE cols1
    IN  [prev EXCEPT !.tasks = PutTask(prev.tasks, taskId, updatedTask),
                     !.columns = cols2]

\* clearBoard: the emptyBoard literal
clearedBoard == EmptyBoard

\* undo, as a function of the store (board, history, future)
undoStore(s) ==
    IF Len(s[2]) = 0 THEN s
    ELSE <<Last(s[2]), DropLast(s[2]), Append(s[3], s[1])>>

\* a redo that does not push the displaced board onto the undo history
redoStoreDropsBoard(s) ==
    IF Len(s[3]) = 0 THEN s
    ELSE <<Last(s[3]), s[2], DropLast(s[3])>>

\* redo, as a function of the store (board, history, future)
redoStore(s) ==
    IF Len(s[3]) = 0 THEN s
    ELSE <<Last(s[3]), Append(s[2], s[1]), DropLast(s[3])>>

canUndo == Len(history) > 0
canRedo == Len(future) > 0

----------------------------------------------------------------------------
(* Rendering *)

\* App's allTags memo calls t.tags.forEach on every task of the board
\* (and reads board.columnOrder, board.columns and board.tasks before that)
RenderThrows(b) ==
    \/ BoardKeys \ DOMAIN b # {}
    \/ \E id \in DOMAIN b.tasks : ~Has(b.tasks[id], "tags")

\* a debounce that leaves a pending auto-save timer running
CommitKeepsTimer(b, hf) ==
    /\ board' = b
    /\ history' = hf[1]
    /\ future' = hf[2]
    /\ faulted' = RenderThrows(b)
    /\ saveTimer' = IF RenderThrows(b) THEN NoTimer
                    ELSE IF saveTimer # NoTimer THEN saveTimer
                    ELSE IF b = board THEN NoTimer ELSE b

\* the state updates of one event are committed and the tree re-rendered; the
\* auto-save effect of the render clears the pending timer and starts one that
\* holds the new board (a render that throws unmounts the tree: the cleanup
\* clears the timer and no effect runs).  The effect is taken to run with the
\* commit, before any timer can fire.  A new board equal to the old one is not
\* told from it: the timer it starts would write what the pending one writes.
Commit(b, hf) ==
    /\ board' = b
    /\ history' = hf[1]
    /\ future' = hf[2]
    /\ faulted' = RenderThrows(b)
    /\ saveTimer' = IF RenderThrows(b) THEN NoTimer
                    ELSE IF b = board THEN saveTimer ELSE b

\* the mutation counter, kept within its bound
CountOp == IF ops < MaxOps THEN ops + 1 ELSE ops

\* an updater threw: the update is lost and React unmounts the tree
Crash ==
    /\ faulted' = TRUE
    /\ saveTimer' = NoTimer
    /\ UNCHANGED store

----------------------------------------------------------------------------
\* the first render of a session that finds blob in storage: useState(loadBoard),
\* and the auto-save effect of the mount starts the timer
InitFrom(blob) ==
    /\ now = StartTime
    /\ saved = blob
    /\ board = loadBoard(blob, 1, StartTime)
    /\ nextId = IF loadBoardFallsBack(blob) THEN Len(sampleTasks) ELSE 0
    /\ history = <<>>
    /\ future = <<>>
    /\ editingTask = NoTask
    /\ deleteTaskId = NoId
    /\ isTyping = FALSE
    /\ chatInput = NoInput
    /\ chatBoard = EmptyBoard
    /\ faulted = RenderThrows(board)
    /\ saveTimer = IF RenderThrows(board) THEN NoTimer ELSE board
    /\ ops = 0

\* a first run (nothing stored) or a session that finds a cleared board stored
Init == \E blob \in {NoBlob, JSONstringify(EmptyBoard)} : InitFrom(blob)

----------------------------------------------------------------------------
(* App handlers *)

\* a modal or a confirmation dialog covers the board
Overlay == editingTask # NoTask \/ deleteTaskId # NoId

\* task.id and task.columnId of a possibly partial record (undefined when absent)
IdOf(t) == IF Has(t, "id") THEN t.id ELSE NoId
ColOf(t) == IF Has(t, "columnId") THEN t.columnId ELSE "undefined"

\* getFilteredTasks: the ids of a column that have a task record
Displayed(c) ==
    {id \in Range(board.columns[c].taskIds) : id \in DOMAIN board.tasks}

\* handleSaveTask with no editingTask (the add modal): addTask
SaveNewTask(columnId) ==
    /\ ~faulted /\ ~Overlay
    /\ nextId < MaxId
    /\ nextId' = nextId + 1
    /\ Commit(addTaskUpdater(board, nextId + 1, columnId, "a", InPriority, <<>>, now),
              pushHistory(<<history, future>>, board))
    /\ ops' = CountOp
    /\ UNCHANGED <<editingTask, deleteTaskId, isTyping, chatInput, chatBoard, now, saved>>

\* handleEditTask: the card's task object is captured
OpenEdit(id) ==
    /\ ~faulted /\ ~Overlay
    /\ \E c \in ColumnIds : id \in Displayed(c)
    /\ editingTask' = board.tasks[id]
    /\ UNCHANGED <<board, history, future, saveTimer, deleteTaskId,
                   isTyping, chatInput, chatBoard, now, saved, nextId, faulted, ops>>

\* TaskModal onClose without saving
CancelEdit ==
    /\ ~faulted
    /\ editingTask # NoTask
    /\ editingTask' = NoTask
    /\ UNCHANGED <<board, history, future, saveTimer, deleteTaskId,
                   isTyping, chatInput, chatBoard, now, saved, nextId, faulted, ops>>

\* handleSaveTask with an editingTask: moveTask when the column changed, then
\* updateTask, both closed over the board of the current render
SaveEdit(columnId) ==
    LET eid == IdOf(editingTask)
        \* the form fields were loaded from editingTask when the modal opened
        title == IF Has(editingTask, "title") THEN editingTask.title ELSE "a"
        tags == IF Has(editingTask, "tags") THEN editingTask.tags ELSE <<>>
        priority == InPriority
        ecol == ColOf(editingTask)
        moved == ecol # columnId
        b1 == IF moved
              THEN moveTaskUpdater(board, eid, ecol, columnId,
                                   Len(board.columns[columnId].taskIds), now)
              ELSE board
        hf1 == IF moved THEN pushHistory(<<history, future>>, board)
               ELSE <<history, future>>
        updates == [title |-> title, priority |-> priority, tags |-> tags,
                    columnId |-> columnId]
    IN  /\ ~faulted
        /\ editingTask # NoTask
        /\ editingTask' = NoTask
        /\ IF moved /\ moveTaskThrows(board, eid, ecol, columnId)
           THEN Crash
           ELSE Commit(updateTaskUpdater(b1, eid, updates),
                       pushHistory(hf1, board))
        /\ ops' = CountOp
        /\ UNCHANGED <<deleteTaskId, isTyping, chatInput, chatBoard, now, saved, nextId>>

\* handleDeleteRequest
RequestDelete(id) ==
    /\ ~faulted /\ ~Overlay
    /\ \E c \in ColumnIds : id \in Displayed(c)
    /\ IdOf(board.tasks[id]) # NoId
    /\ deleteTaskId' = IdOf(board.tasks[id])
    /\ UNCHANGED <<board, history, future, saveTimer, editingTask,
                   isTyping, chatInput, chatBoard, now, saved, nextId, faulted, ops>>

\* ConfirmDialog onCancel
CancelDelete ==
    /\ ~faulted
    /\ deleteTaskId # NoId
    /\ deleteTaskId' = NoId
    /\ UNCHANGED <<board, history, future, saveTimer, editingTask,
                   isTyping, chatInput, chatBoard, now, saved, nextId, faulted, ops>>

\* handleDeleteConfirm: deleteTask
ConfirmDelete ==
    /\ ~faulted
    /\ deleteTaskId # NoId
    /\ deleteTaskId' = NoId
    /\ IF deleteTaskThrows(board, deleteTaskId)
       THEN Crash
       ELSE Commit(deleteTaskUpdater(board, deleteTaskId),
                   pushHistory(<<history, future>>, board))
    /\ ops' = CountOp
    /\ UNCHANGED <<editingTask, isTyping, chatInput, chatBoard, now, saved, nextId>>

\* onDragEnd: a displayed card of column sourceCol is dropped at destIndex of
\* destCol (the drop index is one of the displayed list)
DragEnd(id, sourceCol, destCol, destIndex) ==
    /\ ~faulted /\ ~Overlay
    /\ id \in Displayed(sourceCol)
    /\ IdOf(board.tasks[id]) = id
    /\ IF sourceCol = destCol
       THEN Len(board.columns[destCol].taskIds) >= 2
            /\ destIndex \in 0..(Len(board.columns[destCol].taskIds) - 1)
       ELSE destIndex \in 0..Len(board.columns[destCol].taskIds)
    /\ IF moveTaskThrows(board, id, sourceCol, destCol)
       THEN Crash
       ELSE Commit(moveTaskUpdater(board, id, sourceCol, destCol, destIndex, now),
                   pushHistory(<<history, future>>, board))
    /\ ops' = CountOp
    /\ UNCHANGED <<editingTask, deleteTaskId, isTyping, chatInput, chatBoard,
                   now, saved, nextId>>

\* moveTask as its callers invoke it: the card is in sourceCol (the droppable
\* it was dragged from, or task.columnId for the chatbot) and destIndex is a
\* drop index or a list length.  Successive calls are made at successive
\* instants: each reads a later new Date() than the one before.
MoveTask(id, sourceCol, destCol, destIndex) ==
    /\ ~faulted /\ ~Overlay
    /\ id \in DOMAIN board.tasks
    /\ id \in Range(board.columns[sourceCol].taskIds)
    /\ ~moveTaskThrows(board, id, sourceCol, destCol)
    /\ Commit(moveTaskUpdater(board, id, sourceCol, destCol, destIndex, now),
              pushHistory(<<history, future>>, board))
    /\ ops' = CountOp
    /\ now' = now + 1
    /\ UNCHANGED <<editingTask, deleteTaskId, isTyping, chatInput, chatBoard,
                   saved, nextId>>

\* the reset confirmation: resetBoard
ConfirmReset ==
    /\ ~faulted /\ ~Overlay
    /\ nextId + Len(sampleTasks) <= MaxId
    /\ nextId' = nextId + Len(sampleTasks)
    /\ Commit(createDefaultBoard(nextId + 1, now), pushHistory(<<history, future>>, board))
    /\ saved' = saveBoard(createDefaultBoard(nextId + 1, now))
    /\ ops' = CountOp
    /\ UNCHANGED <<editingTask, deleteTaskId, isTyping, chatInput, chatBoard, now>>

\* a clearBoard that does not push the board it replaces
ConfirmClearSkipsHistory ==
    /\ ~faulted /\ ~Overlay
    /\ Commit(clearedBoard, <<history, future>>)
    /\ saved' = saveBoard(clearedBoard)
    /\ ops' = CountOp
    /\ UNCHANGED <<editingTask, deleteTaskId, isTyping, chatInput, chatBoard,
                   now, nextId>>

\* the clear confirmation: clearBoard
ConfirmClear ==
    /\ ~faulted /\ ~Overlay
    /\ Commit(clearedBoard, pushHistory(<<history, future>>, board))
    /\ saved' = saveBoard(clearedBoard)
    /\ ops' = CountOp
    /\ UNCHANGED <<editingTask, deleteTaskId, isTyping, chatInput, chatBoard,
                   now, nextId>>

\* the save button or Ctrl+S: manualSave
ManualSave ==
    /\ ~faulted
    /\ saved' = saveBoard(board)
    /\ UNCHANGED <<board, history, future, saveTimer, editingTask, deleteTaskId,
                   isTyping, chatInput, chatBoard, now, nextId, faulted, ops>>

\* the auto-save timer fires: saveBoard(board) of the render that started it
SaveTimerFires ==
    /\ saveTimer # NoTimer
    /\ saved' = saveBoard(saveTimer)
    /\ saveTimer' = NoTimer
    /\ UNCHANGED <<board, history, future, editingTask, deleteTaskId,
                   isTyping, chatInput, chatBoard, now, nextId, faulted, ops>>

\* Ctrl+Z (the window keydown handler runs whatever is open): undo
KeyUndo ==
    /\ ~faulted
    /\ LET s == undoStore(<<board, history, future>>)
       IN  Commit(s[1], <<s[2], s[3]>>)
    /\ UNCHANGED <<editingTask, deleteTaskId, isTyping, chatInput, chatBoard,
                   now, saved, nextId, ops>>

\* Ctrl+Shift+Z / Ctrl+Y: redo
KeyRedo ==
    /\ ~faulted
    /\ LET s == redoStore(<<board, history, future>>)
       IN  Commit(s[1], <<s[2], s[3]>>)
    /\ UNCHANGED <<editingTask, deleteTaskId, isTyping, chatInput, chatBoard,
                   now, saved, nextId, ops>>

----------------------------------------------------------------------------
(* Chatbot *)

NoAction == [type |-> "none"]

\* The messages explored.  A message names the task it is about by its title;
\* ref is the task that title resolves to on the board it is matched against.
ChatInputs(b) ==
    {[kind |-> "create", columnId |-> c] : c \in ChatCreateColumns}
    \cup {[kind |-> "move", ref |-> id, destCol |-> c] :
            id \in DOMAIN b.tasks, c \in ColumnIds}
    \cup {[kind |-> "delete", ref |-> id] : id \in DOMAIN b.tasks}
    \cup {[kind |-> "priority", ref |-> id, priority |-> ChatPriority] :
            id \in DOMAIN b.tasks}
    \cup {[kind |-> "tag", ref |-> id, tag |-> ChatTag] : id \in DOMAIN b.tasks}
    \cup {[kind |-> "summary"]}

NeedsTask(msg) == msg.kind \in {"move", "delete", "priority", "tag"}

\* findTaskInMessage reads t.title of every task, the tag intent spreads task.tags
processMessageThrows(msg, b) ==
    /\ NeedsTask(msg)
    /\ \/ \E id \in DOMAIN b.tasks : ~Has(b.tasks[id], "title")
       \/ msg.kind = "tag" /\ msg.ref \in DOMAIN b.tasks /\ ~Has(b.tasks[msg.ref], "tags")

\* [...new Set([...task.tags, ...newTags])] for one new tag
MergeTag(tags, tag) == IF tag \in Range(tags) THEN tags ELSE Append(tags, tag)

\* processMessage: the action of the reply (NoAction when the reply has none)
processMessage(msg, b) ==
    IF msg.kind = "create"
    THEN [type |-> "create", columnId |-> msg.columnId, title |-> "a",
          priority |-> "medium", tags |-> <<>>]
    ELSE IF ~NeedsTask(msg) \/ msg.ref \notin DOMAIN b.tasks
    THEN NoAction
    ELSE LET task == b.tasks[msg.ref] IN
         IF msg.kind = "move"
         THEN IF ColOf(task) = msg.destCol THEN NoAction
              ELSE [type |-> "move", taskId |-> IdOf(task),
                    sourceCol |-> ColOf(task), destCol |-> msg.destCol]
         ELSE IF msg.kind = "delete"
         THEN [type |-> "delete", taskId |-> IdOf(task)]
         ELSE IF msg.kind = "priority"
         THEN IF Has(task, "priority") /\ task.priority = msg.priority THEN NoAction
              ELSE [type |-> "update", taskId |-> IdOf(task),
                    updates |-> [priority |-> msg.priority]]
         ELSE [type |-> "update", taskId |-> IdOf(task),
               updates |-> [tags |-> MergeTag(task.tags, msg.tag)]]

\* sendMessage: the input and the board of this render are captured by the timer
ChatSend(msg) ==
    /\ ~faulted
    /\ ~isTyping
    /\ deleteTaskId = NoId
    /\ msg \in ChatInputs(board)
    /\ isTyping' = TRUE
    /\ chatInput' = msg
    /\ chatBoard' = board
    /\ UNCHANGED <<board, history, future, saveTimer, editingTask, deleteTaskId,
                   now, saved, nextId, faulted, ops>>

\* executeAction may throw inside a setBoard updater
executeActionThrows(a, cur) ==
    \/ a.type = "move" /\ moveTaskThrows(cur, a.taskId, a.sourceCol, a.destCol)
    \/ a.type = "delete" /\ deleteTaskThrows(cur, a.taskId)

\* executeAction: the board the captured store callbacks produce from the
\* current board cur, with snap the board their closures captured
executeAction(a, cur, snap, id, t) ==
    IF a.type = "create"
    THEN addTaskUpdater(cur, id, a.columnId, a.title, a.priority, a.tags, t)
    ELSE IF a.type = "update" THEN updateTaskUpdater(cur, a.taskId, a.updates)
    ELSE IF a.type = "delete" THEN deleteTaskUpdater(cur, a.taskId)
    ELSE IF a.type = "move"
    THEN moveTaskUpdater(cur, a.taskId, a.sourceCol, a.destCol,
                         Len(snap.columns[a.destCol].taskIds), t)
    ELSE cur

\* the setTimeout callback of sendMessage
ChatReply ==
    /\ ~faulted
    /\ isTyping
    /\ ~processMessageThrows(chatInput, chatBoard)
    /\ LET a == processMessage(chatInput, chatBoard) IN
        /\ a.type = "create" => nextId < MaxId
        /\ nextId' = IF a.type = "create" THEN nextId + 1 ELSE nextId
        /\ ops' = IF a.type = "none" THEN ops ELSE CountOp
        /\ IF a.type = "none" THEN UNCHANGED <<board, history, future, saveTimer, faulted>>
           ELSE IF executeActionThrows(a, board) THEN Crash
           ELSE Commit(executeAction(a, board, chatBoard, nextId + 1, now),
                       pushHistory(<<history, future>>, chatBoard))
    /\ isTyping' = FALSE
    /\ chatInput' = NoInput
    /\ chatBoard' = EmptyBoard
    /\ UNCHANGED <<editingTask, deleteTaskId, now, saved>>

----------------------------------------------------------------------------
(* Specification *)

\* mutations are explored while fewer than MaxOps have been issued
Explore == ops < MaxOps

\* the open edit modal, the open delete confirmation and the pending reply timer
Captures ==
    (IF editingTask # NoTask THEN 1 ELSE 0)
    + (IF deleteTaskId # NoId THEN 1 ELSE 0)
    + (IF isTyping THEN 1 ELSE 0)

\* a capture is explored while a mutation it leads to still can be
MayCapture == Explore /\ Captures < MaxCaptures

Next ==
    \/ Explore /\ \E c \in InColumns : SaveNewTask(c)
    \/ MayCapture /\ \E id \in DOMAIN board.tasks : OpenEdit(id)
    \/ CancelEdit
    \/ Explore /\ \E c \in InColumns : SaveEdit(c)
    \/ MayCapture /\ \E id \in DOMAIN board.tasks : RequestDelete(id)
    \/ CancelDelete
    \/ Explore /\ ConfirmDelete
    \/ Explore /\ \E id \in DOMAIN board.tasks, s \in ColumnIds, d \in ColumnIds,
                     i \in 0..MaxId : DragEnd(id, s, d, i)
    \/ Explore /\ ConfirmReset
    \/ Explore /\ ConfirmClear
    \/ KeyUndo
    \/ KeyRedo
    \/ MayCapture /\ \E msg \in ChatInputs(board) : ChatSend(msg)
    \/ (Explore \/ processMessage(chatInput, chatBoard).type = "none") /\ ChatReply

Spec == Init /\ [][Next]_vars

----------------------------------------------------------------------------
(* The history cap: a fresh session in which the board is cleared again and *)
(* again, with undo and redo, until the undo history is full                *)

InitCap ==
    /\ Init
    /\ board = createDefaultBoard(1, StartTime)

NextCap ==
    \/ ConfirmClear
    \/ KeyUndo
    \/ KeyRedo

SpecCap == InitCap /\ [][NextCap]_vars

----------------------------------------------------------------------------
(* The undo and redo stacks: every App handler, and of the chatbot the      *)
(* create command, whose delayed reply pushes the board captured on send    *)

UndoChatInputs(b) == {m \in ChatInputs(b) : m.kind = "create"}

NextUndo ==
    \/ Explore /\ \E c \in InColumns : SaveNewTask(c)
    \/ MayCapture /\ \E id \in DOMAIN board.tasks : OpenEdit(id)
    \/ CancelEdit
    \/ Explore /\ \E c \in InColumns : SaveEdit(c)
    \/ MayCapture /\ \E id \in DOMAIN board.tasks : RequestDelete(id)
    \/ CancelDelete
    \/ Explore /\ ConfirmDelete
    \/ Explore /\ \E id \in DOMAIN board.tasks, s \in ColumnIds, d \in ColumnIds,
                     i \in 0..MaxId : DragEnd(id, s, d, i)
    \/ Explore /\ ConfirmReset
    \/ Explore /\ ConfirmClear
    \/ KeyUndo
    \/ KeyRedo
    \/ MayCapture /\ \E msg \in UndoChatInputs(board) : ChatSend(msg)
    \/ Explore /\ ChatReply

SpecUndo == Init /\ [][NextUndo]_vars

----------------------------------------------------------------------------
(* moveTask on its own: sessions that find a board stored whose tasks are   *)
(* all in one column, and then move cards                                   *)

\* a stored board with tasks 1..MaxId in column c, created and (in 'done')
\* completed as long ago as the seed tasks
MoveBoard(c) ==
    LET task(i) == [id |-> i, title |-> "a", priority |-> InPriority, tags |-> <<>>,
                    createdAt |-> StartTime - sampleTasks[2].age,
                    completedAt |-> IF c = "done"
                                    THEN StartTime - sampleTasks[2].doneAge
                                    ELSE Null,
                    columnId |-> c]
    IN  [tasks |-> [i \in 1..MaxId |-> task(i)],
         columns |-> MkColumns([k \in ColumnIds |->
                        IF k = c THEN [i \in 1..MaxId |-> i] ELSE <<>>]),
         columnOrder |-> ColumnOrder]

InitMove == \E c \in ColumnIds : InitFrom(JSONstringify(MoveBoard(c)))

NextMove ==
    Explore /\ \E id \in DOMAIN board.tasks, s \in ColumnIds, d \in ColumnIds,
                  i \in 0..MaxId : MoveTask(id, s, d, i)

SpecMove == InitMove /\ [][NextMove]_vars

----------------------------------------------------------------------------
(* Persistence: board changes, the save button and the auto-save timer,     *)
(* which fires 300 ms after the last board change unless the tree is gone   *)

NextSave ==
    \/ Explore /\ \E c \in InColumns : SaveNewTask(c)
    \/ Explore /\ ConfirmReset
    \/ Explore /\ ConfirmClear
    \/ KeyUndo
    \/ KeyRedo
    \/ ManualSave
    \/ SaveTimerFires

SpecSave == Init /\ [][NextSave]_vars /\ WF_vars(SaveTimerFires)

----------------------------------------------------------------------------
(* The store's add, update, clear and reset calls: the add and edit modals, *)
(* the confirmations, the chatbot's create command, undo and redo           *)

NextStore ==
    \/ Explore /\ \E c \in InColumns : SaveNewTask(c)
    \/ MayCapture /\ \E id \in DOMAIN board.tasks : OpenEdit(id)
    \/ CancelEdit
    \/ Explore /\ \E c \in InColumns : SaveEdit(c)
    \/ Explore /\ ConfirmReset
    \/ Explore /\ ConfirmClear
    \/ KeyUndo
    \/ KeyRedo
    \/ MayCapture /\ \E msg \in UndoChatInputs(board) : ChatSend(msg)
    \/ Explore /\ ChatReply

SpecStore == Init /\ [][NextStore]_vars

----------------------------------------------------------------------------
(* Chatbot: the text of a message.  Strings are JavaScript strings over     *)
(* ASCII; the only white space is the blank.                                *)

UpperLetters == "ABCDEFGHIJKLMNOPQRSTUVWXYZ"

LowerLetters == "abcdefghijklmnopqrstuvwxyz"

Digits == "0123456789"

CharAt(s, i) == SubSeq(s, i, i)

CharsOf(s) == {CharAt(s, i) : i \in 1..Len(s)}

\* \w of a regular expression
WordChars == CharsOf(UpperLetters) \cup CharsOf(LowerLetters) \cup CharsOf(Digits) \cup {"_"}

\* ["'] of a regular expression
QuoteChars == {"\"", "'"}

\* the lower-case letter of every upper-case letter
LowerOf ==
    [c \in CharsOf(UpperLetters) |->
        CharAt(LowerLetters, CHOOSE i \in 1..Len(UpperLetters) : CharAt(UpperLetters, i) = c)]

toLowerChar(c) == IF c \in DOMAIN LowerOf THEN LowerOf[c] ELSE c

RECURSIVE toLowerCase(_)
toLowerCase(s) ==
    IF Len(s) = 0 THEN ""
    ELSE toLowerChar(CharAt(s, 1)) \o toLowerCase(SubSeq(s, 2, Len(s)))

startsWith(s, t) == Len(t) <= Len(s) /\ SubSeq(s, 1, Len(t)) = t

\* the places where t occurs in s
occurrencesOf(s, t) ==
    {i \in 1..(Len(s) - Len(t) + 1) : SubSeq(s, i, i + Len(t) - 1) = t}

includes(s, t) == occurrencesOf(s, t) # {}

\* \b of a regular expression between the characters i and i + 1 of s
WordBoundary(s, i) ==
    LET before == i >= 1 /\ i <= Len(s) /\ CharAt(s, i) \in WordChars
        after == i + 1 >= 1 /\ i + 1 <= Len(s) /\ CharAt(s, i + 1) \in WordChars
    IN  before # after

\* /\b(w)\b/ for a word w of word characters (blanks allowed inside)
MatchesWord(s, w) ==
    \E i \in occurrencesOf(s, w) :
        WordBoundary(s, i - 1) /\ WordBoundary(s, i + Len(w) - 1)

MatchesAnyWord(s, ws) == \E w \in ws : MatchesWord(s, w)

RECURSIVE trimStart(_)
trimStart(s) ==
    IF Len(s) > 0 /\ CharAt(s, 1) = " " THEN trimStart(SubSeq(s, 2, Len(s))) ELSE s

RECURSIVE trimEnd(_)
trimEnd(s) ==
    IF Len(s) > 0 /\ CharAt(s, Len(s)) = " " THEN trimEnd(SubSeq(s, 1, Len(s) - 1))
    ELSE s

trim(s) == trimEnd(trimStart(s))

\* String.prototype.split on a regular expression [seps]+
RECURSIVE split(_, _)
split(s, seps) ==
    LET at == {i \in 1..Len(s) : CharAt(s, i) \in seps} IN
    IF at = {} THEN <<s>>
    ELSE LET i == CHOOSE k \in at : \A l \in at : k <= l
             rest == {k \in (i + 1)..Len(s) : CharAt(s, k) \notin seps}
             j == IF rest = {} THEN Len(s) + 1
                  ELSE CHOOSE k \in rest : \A l \in rest : k <= l
         IN  <<SubSeq(s, 1, i - 1)>> \o split(SubSeq(s, j, Len(s)), seps)

\* Array.prototype.filter
RECURSIVE SelectSeqIn(_, _)
SelectSeqIn(seq, keep) ==
    IF seq = <<>> THEN <<>>
    ELSE (IF Head(seq) \in keep THEN <<Head(seq)>> ELSE <<>>)
         \o SelectSeqIn(Tail(seq), keep)

\* message.match(/["']([^"']+)["']/): the first quoted text, "" when none
quotedText(s) ==
    LET opens == {i \in 1..Len(s) :
                    /\ CharAt(s, i) \in QuoteChars
                    /\ i + 1 <= Len(s) /\ CharAt(s, i + 1) \notin QuoteChars
                    /\ \E j \in (i + 2)..Len(s) : CharAt(s, j) \in QuoteChars}
    IN  IF opens = {} THEN ""
        ELSE LET i == CHOOSE k \in opens : \A l \in opens : k <= l
                 closes == {j \in (i + 2)..Len(s) : CharAt(s, j) \in QuoteChars}
                 j == CHOOSE k \in closes : \A l \in closes : k <= l
             IN  SubSeq(s, i + 1, j - 1)

----------------------------------------------------------------------------
(* Chatbot: the task matcher *)

\* Array.prototype.slice(0, n)
FirstN(seq, n) == SubSeq(seq, 1, Min(n, Len(seq)))

\* Array.prototype.sort with a comparator that puts a before b exactly when
\* <<a, b>> is in before (the sort is stable)
RECURSIVE SortBy(_, _)
SortBy(seq, before) ==
    IF seq = <<>> THEN <<>>
    ELSE LET firsts == {i \in 1..Len(seq) :
                          \A j \in 1..Len(seq) : <<seq[j], seq[i]>> \notin before}
             i == CHOOSE k \in firsts : \A l \in firsts : k <= l
         IN  <<seq[i]>> \o SortBy(SubSeq(seq, 1, i - 1) \o SubSeq(seq, i + 1, Len(seq)),
                                  before)

\* Object.values(board.tasks): the keys in the order they were inserted, which
\* is the order of the ids as long as no id was put back after its removal
RECURSIVE KeysInOrder(_)
KeysInOrder(ids) ==
    IF ids = {} THEN <<>>
    ELSE LET m == CHOOSE k \in ids : \A l \in ids : k <= l
         IN  <<m>> \o KeysInOrder(ids \ {m})

allTasks(b) == KeysInOrder(DOMAIN b.tasks)

titleLower(b, id) == toLowerCase(b.tasks[id].title)

\* findTaskInMessage: the words that are not part of a task reference
stopWords ==
    {"create", "add", "make", "new", "task", "move", "delete", "remove",
     "change", "set", "update", "edit", "modify", "rename", "complete", "finish",
     "start", "begin", "the", "a", "an", "to", "from", "of", "for", "with", "in",
     "on", "at", "by", "priority", "high", "medium", "low", "due", "date", "tag",
     "tags", "title", "name", "description", "desc", "details", "column",
     "status", "todo", "progress", "done", "please", "can", "you", "could",
     "would", "want", "need", "like", "it", "its", "and", "or", "but", "is",
     "are", "was", "were", "be", "been", "being", "my", "this", "that"}

\* findTaskInMessage, strategy 2: the words of a text longer than one character
wordsOf(s) ==
    LET long(ws) == SelectSeqIn(ws, {w \in Range(ws) : Len(w) > 1})
    IN  long(split(s, {" "}))

messageWords(lower) ==
    LET content(ws) == SelectSeqIn(ws, Range(ws) \ stopWords)
    IN  content(wordsOf(lower))

\* findTaskInMessage, strategy 2: the title words some message word matches
matchCount(title, mws) ==
    LET matched(tws) ==
            Cardinality({i \in 1..Len(tws) :
                \E mw \in Range(mws) :
                    tws[i] = mw \/ includes(tws[i], mw) \/ includes(mw, tws[i])})
    IN  matched(wordsOf(title))

\* findTaskInMessage, strategy 2: score = matchCount / titleWords.length, kept
\* as the pair of the two numbers
scoreOf(b, id, mws) ==
    [count |-> matchCount(titleLower(b, id), mws),
     words |-> Len(wordsOf(titleLower(b, id)))]

\* s.score > 0.3 || s.matchCount >= 2
scoreKept(sc) == (sc.words > 0 /\ 10 * sc.count > 3 * sc.words) \/ sc.count >= 2

\* b.score - a.score || b.matchCount - a.matchCount puts x before y
scoreBefore(x, y) ==
    \/ x.count * y.words > y.count * x.words
    \/ x.count * y.words = y.count * x.words /\ x.count > y.count

Resolved(id) == [task |-> id, candidates |-> <<>>]

Unresolved(cands) == [task |-> NoId, candidates |-> cands]

\* findTaskInMessage, from strategy 2 on
findByWords(lower, b) ==
    LET pick(sc, scored) ==
            IF Len(scored) = 0 THEN Unresolved(<<>>)
            ELSE IF Len(scored) = 1 THEN Resolved(scored[1])
            ELSE IF /\ 10 * sc[scored[1]].count >= 6 * sc[scored[1]].words
                    /\ 10 * sc[scored[1]].count * sc[scored[2]].words
                       > 12 * sc[scored[2]].count * sc[scored[1]].words
            THEN Resolved(scored[1])
            ELSE Unresolved(FirstN(scored, 5))
        rank(sc) ==
            pick(sc, SortBy(SelectSeqIn(allTasks(b),
                                        {id \in DOMAIN b.tasks : scoreKept(sc[id])}),
                            {p \in (DOMAIN b.tasks) \X (DOMAIN b.tasks) :
                                scoreBefore(sc[p[1]], sc[p[2]])}))
        score(mws) == rank([id \in DOMAIN b.tasks |-> scoreOf(b, id, mws)])
    IN  score(messageWords(lower))

\* findTaskInMessage, from strategy 1 on
\* an exact-substring strategy that tries the shortest title first
findBySubstringShortestFirst(lower, b) ==
    LET first(hits) ==
            IF hits # <<>> THEN Resolved(Head(hits)) ELSE findByWords(lower, b)
        sortedByLength ==
            SortBy(allTasks(b), {p \in (DOMAIN b.tasks) \X (DOMAIN b.tasks) :
                                    Len(b.tasks[p[1]].title) < Len(b.tasks[p[2]].title)})
    IN  first(SelectSeqIn(sortedByLength,
                          {id \in DOMAIN b.tasks :
                              /\ Len(titleLower(b, id)) >= 3
                              /\ includes(lower, titleLower(b, id))}))

\* findTaskInMessage, strategy 1: the longest title that the text contains
findBySubstring(lower, b) ==
    LET first(hits) ==
            IF hits # <<>> THEN Resolved(Head(hits)) ELSE findByWords(lower, b)
        sortedByLength ==
            SortBy(allTasks(b), {p \in (DOMAIN b.tasks) \X (DOMAIN b.tasks) :
                                    Len(b.tasks[p[1]].title) > Len(b.tasks[p[2]].title)})
    IN  first(SelectSeqIn(sortedByLength,
                          {id \in DOMAIN b.tasks :
                              /\ Len(titleLower(b, id)) >= 3
                              /\ includes(lower, titleLower(b, id))}))

findTaskInMessage(message, b) ==
    LET byQuote(all, q, exact, partial) ==
            IF all = <<>> THEN Unresolved(<<>>)
            ELSE IF q # "" /\ exact # <<>> THEN Resolved(Head(exact))
            ELSE IF q # "" /\ Len(partial) = 1 THEN Resolved(partial[1])
            ELSE IF q # "" /\ Len(partial) > 1 THEN Unresolved(FirstN(partial, 5))
            ELSE findBySubstring(toLowerCase(message), b)
        quoted(all, q) ==
            byQuote(all, q,
                    SelectSeqIn(all, {id \in DOMAIN b.tasks : titleLower(b, id) = q}),
                    SelectSeqIn(all, {id \in DOMAIN b.tasks :
                                        \/ includes(titleLower(b, id), q)
                                        \/ includes(q, titleLower(b, id))}))
    IN  quoted(allTasks(b), toLowerCase(quotedText(message)))


----------------------------------------------------------------------------
(* The chatbot and the clock: due-date commands and the board summary, sent *)
(* and answered while the days pass                                         *)

\* date expressions of a due-date command
DatePhrases == {"today", "tomorrow", "next week", "none", "soon"}

\* parseNaturalDate: `today` is new Date() at midnight, read at day t
parseNaturalDate(text, t) ==
    IF text = "today" THEN t
    ELSE IF text = "tomorrow" THEN t + 1
    ELSE IF text = "next week" THEN t + 7
    ELSE Null

\* Instants are hours since the epoch; the environment's local time is UTC
\* plus a whole number of hours
HoursPerDay == 24

ZoneOffsets == (0 - 12)..14

\* Date.prototype.getDate and friends: the local calendar day of instant h
LocalDay(h, off) == (h + off) \div HoursPerDay

\* today.setHours(0, 0, 0, 0): the instant of local midnight of the day of h
setHoursZero(h, off) == LocalDay(h, off) * HoursPerDay - off

\* d.setDate(d.getDate() + n) of a local midnight
setDatePlus(h, n) == h + n * HoursPerDay

\* toISOString().slice(0, 10): the UTC calendar day of instant h
toISODay(h) == h \div HoursPerDay

\* parseNaturalDate called at instant h where local time is UTC + off
parseNaturalDateIn(text, h, off) ==
    LET today == setHoursZero(h, off) IN
    IF text = "today" THEN toISODay(today)
    ELSE IF text = "tomorrow" THEN toISODay(setDatePlus(today, 1))
    ELSE IF text = "in 2 days" THEN toISODay(setDatePlus(today, 2))
    ELSE IF text = "next week" THEN toISODay(setDatePlus(today, 7))
    ELSE Null

\* isOverdue: the end of the due day lies before new Date(), read at day t
isOverdue(dueDate, t) == dueDate # Null /\ dueDate < t

\* processMessage: const overdueTasks
overdueTasks(b, t) ==
    {id \in DOMAIN b.tasks :
        /\ ColOf(b.tasks[id]) # "done"
        /\ Has(b.tasks[id], "dueDate")
        /\ isOverdue(b.tasks[id].dueDate, t)}

ClockInputs(b) ==
    {[kind |-> "due", ref |-> id, phrase |-> ph] :
        id \in DOMAIN b.tasks, ph \in DatePhrases}
    \cup {[kind |-> "summary"]}

\* processMessage invoked on day t: the action of the reply, and for the board
\* summary the overdue count its text reports
processMessageAt(msg, b, t) ==
    IF msg.kind = "summary"
    THEN [type |-> "none", overdue |-> Cardinality(overdueTasks(b, t))]
    ELSE IF msg.kind # "due" THEN processMessage(msg, b)
    ELSE IF msg.ref \notin DOMAIN b.tasks THEN NoAction
    ELSE IF msg.phrase = "none"
    THEN [type |-> "update", taskId |-> IdOf(b.tasks[msg.ref]),
          updates |-> [dueDate |-> Null]]
    ELSE LET parsed == parseNaturalDate(msg.phrase, t) IN
         IF parsed = Null THEN NoAction
         ELSE [type |-> "update", taskId |-> IdOf(b.tasks[msg.ref]),
               updates |-> [dueDate |-> parsed]]

\* a day passes
Tick ==
    /\ now < StartTime + MaxOps
    /\ now' = now + 1
    /\ UNCHANGED <<board, history, future, saveTimer, editingTask, deleteTaskId,
                   isTyping, chatInput, chatBoard, saved, nextId, faulted, ops>>

\* sendMessage with a due-date command or a request for the summary
ChatSendDue(msg) ==
    /\ ~faulted
    /\ ~isTyping
    /\ deleteTaskId = NoId
    /\ msg \in ClockInputs(board)
    /\ isTyping' = TRUE
    /\ chatInput' = msg
    /\ chatBoard' = board
    /\ UNCHANGED <<board, history, future, saveTimer, editingTask, deleteTaskId,
                   now, saved, nextId, faulted, ops>>

\* the setTimeout callback of sendMessage, on the day it runs
ChatReplyDue ==
    /\ ~faulted
    /\ isTyping
    /\ LET a == processMessageAt(chatInput, chatBoard, now) IN
        /\ ops' = IF a.type = "none" THEN ops ELSE CountOp
        /\ IF a.type = "none"
           THEN UNCHANGED <<board, history, future, saveTimer, faulted>>
           ELSE Commit(executeAction(a, board, chatBoard, nextId + 1, now),
                       pushHistory(<<history, future>>, chatBoard))
    /\ isTyping' = FALSE
    /\ chatInput' = NoInput
    /\ chatBoard' = EmptyBoard
    /\ UNCHANGED <<editingTask, deleteTaskId, now, saved, nextId>>

NextClock ==
    \/ Tick
    \/ Explore /\ \E msg \in ClockInputs(board) : ChatSendDue(msg)
    \/ ChatReplyDue

SpecClock == Init /\ [][NextClock]_vars

----------------------------------------------------------------------------
(* Chatbot: processMessage on the text of a message.  processMessage above  *)
(* is the same function on a message whose intent and task are resolved.    *)
(* Of regular expressions that are not anchored only the leftmost match at  *)
(* a token is modelled, and tokens are separated by single blanks.          *)

tokens(s) == split(s, {" "})

RECURSIVE joinFrom(_, _)
joinFrom(toks, i) ==
    IF i > Len(toks) THEN ""
    ELSE IF i = Len(toks) THEN toks[i]
    ELSE toks[i] \o " " \o joinFrom(toks, i + 1)

joinWords(toks, i, j) == joinFrom(SubSeq(toks, 1, j), i)

includesAny(s, ts) == \E t \in ts : includes(s, t)

startsWithAny(s, ts) == \E t \in ts : startsWith(s, t)

RECURSIVE stripQuestionMarks(_)
stripQuestionMarks(s) ==
    IF Len(s) > 0 /\ CharAt(s, Len(s)) = "?"
    THEN stripQuestionMarks(SubSeq(s, 1, Len(s) - 1))
    ELSE s

politePrefixes ==
    {"please ", "can you ", "could you ", "would you ", "i want to ",
     "i'd like to ", "i need to ", "i want you to "}

normalizeMessage(msg) ==
    LET lower == toLowerCase(msg)
        hits == {p \in politePrefixes : startsWith(lower, p)}
        rest == IF hits = {} THEN msg
                ELSE LET p == CHOOSE h \in hits : TRUE
                     IN  trimStart(SubSeq(msg, Len(p) + 1, Len(msg)))
    IN  trim(stripQuestionMarks(rest))

parseColumnRef(text) ==
    LET lower == toLowerCase(text) IN
    IF MatchesAnyWord(lower, {"to do", "to-do", "todo", "backlog"}) THEN "todo"
    ELSE IF MatchesAnyWord(lower, {"in progress", "in-progress", "inprogress",
                                   "doing", "working", "active", "started", "wip"})
    THEN "in-progress"
    ELSE IF MatchesAnyWord(lower, {"done", "complete", "completed", "finishe",
                                   "finished"})
    THEN "done"
    ELSE "none"

parsePriorityRef(text) ==
    LET lower == toLowerCase(text) IN
    IF MatchesAnyWord(lower, {"high", "urgent", "critical", "important"}) THEN "high"
    ELSE IF MatchesAnyWord(lower, {"medium", "normal", "moderate", "med"})
    THEN "medium"
    ELSE IF MatchesAnyWord(lower, {"low", "minor", "trivial"}) THEN "low"
    ELSE "none"

\* /tags?\b/ at the start of a token
tagWord(w) ==
    \/ startsWith(w, "tags") /\ WordBoundary(w, 4)
    \/ startsWith(w, "tag") /\ WordBoundary(w, 3)

\* /^verb\s+(a\s+)?tags?\b/: the token the tag word is, 0 when no match
tagHead(lt, verb) ==
    IF Len(lt) >= 2 /\ lt[1] = verb /\ tagWord(lt[2]) THEN 2
    ELSE IF Len(lt) >= 3 /\ lt[1] = verb /\ lt[2] = "a" /\ tagWord(lt[3]) THEN 3
    ELSE 0

\* /(?:verb\s+(?:a\s+)?tags?\s+|short\s+)(.+?)(?:\s+c1\s+|\s+c2\s+...)(.+)/i:
\* <<the tag list, the task reference>>, <<>> when no match
tagCommand(nt, verb, short, connectors) ==
    LET cut(v, cs) ==
            IF v = 0 \/ cs = {} THEN <<>>
            ELSE <<joinWords(nt, v + 1, (CHOOSE k \in cs : \A l \in cs : k <= l) - 1),
                   joinFrom(nt, (CHOOSE k \in cs : \A l \in cs : k <= l) + 1)>>
        verbAt(lt, h) ==
            IF h > 0 /\ lt[h] \in {"tag", "tags"} THEN h
            ELSE IF Len(lt) >= 1 /\ lt[1] = short THEN 1
            ELSE 0
        connected(lt, v) ==
            cut(v, {c \in (v + 2)..(Len(nt) - 1) : lt[c] \in connectors})
        lowered(lt) == connected(lt, verbAt(lt, tagHead(lt, verb)))
    IN  lowered([i \in 1..Len(nt) |-> toLowerCase(nt[i])])

\* text.split(/[,;&]+/).map(t => t.trim().toLowerCase())
tagList(text) ==
    LET each(parts) == [i \in 1..Len(parts) |-> toLowerCase(trim(parts[i]))]
    IN  each(split(text, {",", ";", "&"}))

\* [...new Set(seq)]
RECURSIVE uniqueOf(_)
uniqueOf(seq) ==
    IF seq = <<>> THEN <<>>
    ELSE LET front == uniqueOf(DropLast(seq))
         IN  IF Last(seq) \in Range(front) THEN front ELSE Append(front, Last(seq))

NoReply(kind) == [kind |-> kind, action |-> NoAction, candidates |-> <<>>]

Which(cands) == [kind |-> "which", action |-> NoAction, candidates |-> cands]

Acts(a) == [kind |-> "done", action |-> a, candidates |-> <<>>]

\* the add-tags intent
addTagsReply(normalized, b) ==
    LET reply(newTags, found) ==
            IF found.task = NoId /\ found.candidates # <<>>
            THEN Which(found.candidates)
            ELSE IF found.task = NoId THEN NoReply("notfound")
            ELSE LET task == b.tasks[found.task] IN
                 Acts([type |-> "update", taskId |-> IdOf(task),
                       updates |-> [tags |-> uniqueOf(task.tags \o newTags)]])
        named(m) ==
            IF m = <<>> THEN NoReply("usage")
            ELSE reply(SelectSeqIn(tagList(m[1]), Range(tagList(m[1])) \ {""}),
                       findTaskInMessage(m[2], b))
    IN  named(tagCommand(tokens(normalized), "add", "tag", {"to", "on", "for"}))

\* the remove-tags intent
removeTagsReply(normalized, b) ==
    LET reply(tagsToRemove, found) ==
            IF found.task = NoId /\ found.candidates # <<>>
            THEN Which(found.candidates)
            ELSE IF found.task = NoId THEN NoReply("notfound")
            ELSE LET task == b.tasks[found.task] IN
                 Acts([type |-> "update", taskId |-> IdOf(task),
                       updates |-> [tags |->
                           SelectSeqIn(task.tags, Range(task.tags) \ tagsToRemove)]])
        named(m) ==
            IF m = <<>> THEN NoReply("usage")
            ELSE reply(Range(tagList(m[1])) \ {""}, findTaskInMessage(m[2], b))
    IN  named(tagCommand(tokens(normalized), "remove", "untag", {"from", "on"}))

\* the least element of a nonempty set of numbers, 0 for the empty set
leastOf(S) == IF S = {} THEN 0 ELSE CHOOSE k \in S : \A l \in S : k <= l

\* the column names of one token that the clause /in\s+(?:...)\b/ knows: in
\* the patterns for `called` and the colon, for `task`, and in the others
calledColumns == {"todo", "doing", "done", "inprogress"}
taskColumns == {"todo", "doing", "done", "inprogress", "in-progress", "completed"}
clauseColumns == {"todo", "doing", "done", "inprogress", "in-progress"}

\* /in\s+(?:todo|to\s?do|in\s?progress|doing|done)\b/ at token i
inColumnAt(lt, i, cols) ==
    /\ lt[i] = "in"
    /\ \/ i + 1 <= Len(lt) /\ lt[i + 1] \in cols
       \/ i + 2 <= Len(lt) /\ lt[i + 1] = "to" /\ lt[i + 2] = "do"
       \/ i + 2 <= Len(lt) /\ lt[i + 1] = "in" /\ lt[i + 2] = "progress"

\* the clause keywords that end a lazily matched title or tag list
clauseWords == {"with", "priority", "due", "by", "tag", "tags", "tagged",
                "description", "desc"}

\* (.+?)(?:\s+(?:clause word)\b|$) matched from token i: the last token of
\* the group
clauseEnd(lt, i, stops, cols) ==
    LET ends == {k \in (i + 1)..Len(lt) : lt[k] \in stops \/ inColumnAt(lt, k, cols)}
    IN  IF ends = {} THEN Len(lt) ELSE leastOf(ends) - 1

\* the first token after the leftmost token that is one of the words ws and
\* has a token after it, 0 when there is none
afterWord(lt, ws) ==
    LET at == {k \in 1..(Len(lt) - 1) : lt[k] \in ws}
    IN  IF at = {} THEN 0 ELSE leastOf(at) + 1

\* a text without its first token when that token is one of the words ws and
\* is not the only one
dropLead(text, ws) ==
    LET nt == tokens(text) IN
    IF Len(nt) >= 2 /\ toLowerCase(nt[1]) \in ws THEN joinFrom(nt, 2) ELSE text

\* the title of the create intent, "" when the message has none
createTitle(normalized) ==
    LET titleIn(nt, lt) ==
            LET group(i, cols) == joinWords(nt, i, clauseEnd(lt, i, clauseWords, cols))
                quoted == quotedText(normalized)
                called == afterWord(lt, {"called", "titled", "named"})
                colon == afterWord(lt, {"task:", "item:", "card:"})
                task == afterWord(lt, {"task", "item", "card"})
                d1 == IF Len(lt) >= 3 /\ lt[2] \in {"a", "an"} THEN 3 ELSE 2
                d2 == IF d1 + 1 <= Len(lt) /\ lt[d1] \in {"high", "medium", "low"}
                      THEN d1 + 1 ELSE d1
                d3 == IF d2 > d1 /\ d2 + 1 <= Len(lt) /\ lt[d2] = "priority"
                      THEN d2 + 1 ELSE d2
                direct == IF d3 <= Len(lt)
                          THEN dropLead(dropLead(group(d3, clauseColumns),
                                                 {"task", "item", "card"}),
                                        {"called", "titled", "named"})
                          ELSE ""
            IN  IF quoted # "" THEN quoted
                ELSE IF called > 0 THEN group(called, calledColumns)
                ELSE IF colon > 0 THEN group(colon, calledColumns)
                ELSE IF task > 0
                THEN dropLead(dropLead(group(task, taskColumns), {"a", "an", "the"}),
                              {"called", "titled", "named"})
                ELSE IF /\ direct # ""
                        /\ toLowerCase(direct) \notin {"task", "a"}
                        /\ Len(direct) > 1
                THEN direct
                ELSE ""
        lowered(nt) == titleIn(nt, [i \in 1..Len(nt) |-> toLowerCase(nt[i])])
    IN  lowered(tokens(normalized))

\* title.replace(/\s+(clause word)\b.*$/i, '').trim(), and then without a
\* quote at its start and at its end
cleanTitle(title) ==
    LET atEnd(a) ==
            IF Len(a) > 0 /\ CharAt(a, Len(a)) \in QuoteChars
            THEN SubSeq(a, 1, Len(a) - 1) ELSE a
        atStart(cut) ==
            atEnd(IF Len(cut) > 0 /\ CharAt(cut, 1) \in QuoteChars
                  THEN SubSeq(cut, 2, Len(cut)) ELSE cut)
        clause(nt, lt) ==
            atStart(trim(joinWords(nt, 1, clauseEnd(lt, 1, clauseWords, clauseColumns))))
        lowered(nt) == clause(nt, [i \in 1..Len(nt) |-> toLowerCase(nt[i])])
    IN  trim(lowered(tokens(title)))

\* the tags of the create intent
createTags(normalized) ==
    LET kept(listed) == SelectSeqIn(listed, Range(listed) \ {"", "and"})
        listedFrom(nt, lt, at) ==
            kept(IF at = 0 THEN <<>>
                 ELSE tagList(joinWords(nt, at,
                        clauseEnd(lt, at, {"with", "priority", "due", "by",
                                           "description", "desc"},
                                  clauseColumns))))
        tagged(nt, lt) ==
            listedFrom(nt, lt,
                       afterWord(lt, {"tag", "tags", "tagged", "label", "labels",
                                      "tag:", "tags:", "label:", "labels:"}))
        lowered(nt) == tagged(nt, [i \in 1..Len(nt) |-> toLowerCase(nt[i])])
    IN  lowered(tokens(normalized))

\* the create intent
createReply(normalized, b) ==
    LET reply(title, priority, column) ==
            IF title = "" THEN NoReply("needtitle")
            ELSE Acts([type |-> "create",
                       columnId |-> IF column = "none" THEN "todo" ELSE column,
                       title |-> title,
                       priority |-> IF priority = "none" THEN "medium" ELSE priority,
                       tags |-> createTags(normalized)])
        titled(raw, lower) ==
            reply(IF raw = "" THEN "" ELSE cleanTitle(raw),
                  parsePriorityRef(lower), parseColumnRef(lower))
    IN  titled(createTitle(normalized), toLowerCase(normalized))

\* /mark.*(?:as\s+)?(?:done|complete)/
markedDone(lower) ==
    \E i \in occurrencesOf(lower, "mark") :
        \E j \in occurrencesOf(lower, "done") \cup occurrencesOf(lower, "complete") :
            j >= i + 4

\* the destination column of the move, complete and start intents
moveDest(lower) ==
    LET lt == tokens(lower)
        doneWith == Len(lt) >= 2 /\ lt[1] = "done" /\ startsWith(lt[2], "with")
    IN  IF startsWithAny(lower, {"complete", "finish"}) \/ doneWith \/ markedDone(lower)
        THEN "done"
        ELSE IF startsWithAny(lower, {"start", "begin"}) THEN "in-progress"
        ELSE parseColumnRef(lower)

\* a move intent that does not look at the column the task is in
moveReplyMovesAnyway(normalized, b) ==
    LET reply(destCol, found) ==
            IF destCol = "none" THEN NoReply("where")
            ELSE IF found.task = NoId /\ found.candidates # <<>>
            THEN Which(found.candidates)
            ELSE IF found.task = NoId
            THEN NoReply(IF allTasks(b) = <<>> THEN "empty" ELSE "notfound")
            ELSE LET task == b.tasks[found.task] IN
                 Acts([type |-> "move", taskId |-> IdOf(task),
                       sourceCol |-> ColOf(task), destCol |-> destCol])
    IN  reply(moveDest(toLowerCase(normalized)), findTaskInMessage(normalized, b))

\* the move, complete and start intents
moveReply(normalized, b) ==
    LET reply(destCol, found) ==
            IF destCol = "none" THEN NoReply("where")
            ELSE IF found.task = NoId /\ found.candidates # <<>>
            THEN Which(found.candidates)
            ELSE IF found.task = NoId
            THEN NoReply(IF allTasks(b) = <<>> THEN "empty" ELSE "notfound")
            ELSE LET task == b.tasks[found.task] IN
                 IF ColOf(task) = destCol THEN NoReply("already")
                 ELSE Acts([type |-> "move", taskId |-> IdOf(task),
                            sourceCol |-> ColOf(task), destCol |-> destCol])
    IN  reply(moveDest(toLowerCase(normalized)), findTaskInMessage(normalized, b))

\* /(?:w1|w2)\s+(.+?)\s*$/: the text after the leftmost of the texts ws that
\* is followed by a blank, "" when there is none
textAfter(s, ws) ==
    LET lower == toLowerCase(s)
        at == UNION {{<<i, Len(w)>> : i \in occurrencesOf(lower, w \o " ")} : w \in ws}
        first == leastOf({p[1] : p \in at})
        len == leastOf({p[2] : p \in {q \in at : q[1] = first}})
    IN  IF at = {} THEN "" ELSE trim(SubSeq(s, first + len, Len(s)))

\* ["']?(.+?)["']?\s*$ of a text that is trimmed
unquote(s) ==
    LET a == IF Len(s) > 1 /\ CharAt(s, 1) \in QuoteChars THEN SubSeq(s, 2, Len(s))
             ELSE s
    IN  IF Len(a) > 1 /\ CharAt(a, Len(a)) \in QuoteChars
        THEN SubSeq(a, 1, Len(a) - 1) ELSE a

\* the edit intent
editReply(normalized, b, t) ==
    LET reply(lower, found) ==
            LET field == IF MatchesAnyWord(lower, {"priority", "pri"}) THEN "priority"
                         ELSE IF startsWith(lower, "rename")
                                 \/ MatchesAnyWord(lower, {"title", "name"})
                         THEN "title"
                         ELSE IF MatchesAnyWord(lower, {"due", "deadline", "date"})
                         THEN "dueDate"
                         ELSE IF MatchesAnyWord(lower, {"description", "desc", "details"})
                         THEN "description"
                         ELSE "none"
                task == b.tasks[found.task]
                update(u) ==
                    Acts([type |-> "update", taskId |-> IdOf(task), updates |-> u])
                newPriority == parsePriorityRef(lower)
                newTitle == trim(unquote(textAfter(normalized, {"to", "as"})))
                toDate == textAfter(lower, {"to", "="})
                dateStr == IF toDate # "" THEN toDate
                           ELSE dropLead(textAfter(lower, {"due", "deadline", "date"}),
                                         {"to", "="})
                parsed == parseNaturalDate(dateStr, t)
                afterDesc == tokens(textAfter(normalized, {"description"}))
                ofTask == Len(afterDesc) >= 3 /\ toLowerCase(afterDesc[1]) = "of"
                described == dropLead(IF ofTask THEN joinFrom(afterDesc, 3)
                                      ELSE joinFrom(afterDesc, 1), {"to"})
                newDesc == IF textAfter(normalized, {"to", "="}) # ""
                           THEN trim(unquote(textAfter(normalized, {"to", "="})))
                           ELSE trim(unquote(described))
            IN  IF field = "none"
                THEN IF found.task # NoId THEN NoReply("whatfield")
                     ELSE IF found.candidates # <<>> THEN Which(found.candidates)
                     ELSE NoReply("whatedit")
                ELSE IF found.task = NoId /\ found.candidates # <<>>
                THEN Which(found.candidates)
                ELSE IF found.task = NoId THEN NoReply("notfound")
                ELSE IF field = "priority"
                THEN IF newPriority = "none" THEN NoReply("whatpriority")
                     ELSE IF Has(task, "priority") /\ newPriority = task.priority
                     THEN NoReply("already")
                     ELSE update([priority |-> newPriority])
                ELSE IF field = "title"
                THEN IF newTitle = "" THEN NoReply("whattitle")
                     ELSE update([title |-> newTitle])
                ELSE IF field = "dueDate"
                THEN IF dateStr = "" THEN NoReply("whendue")
                     ELSE IF dateStr \in {"none", "clear", "remove", "no date", "unset",
                                          "null"}
                     THEN update([dueDate |-> Null])
                     ELSE IF parsed = Null THEN NoReply("baddate")
                     ELSE update([dueDate |-> parsed])
                ELSE IF newDesc = "" THEN NoReply("whatdescription")
                     ELSE update([description |-> newDesc])
    IN  reply(toLowerCase(normalized), findTaskInMessage(normalized, b))

\* a delete intent that takes the first of several candidates
deleteReplyTakesFirst(normalized, b) ==
    LET reply(lt, found) ==
            IF tagHead(lt, "remove") > 0 THEN NoReply("usage")
            ELSE IF found.task = NoId /\ found.candidates # <<>>
            THEN Acts([type |-> "delete",
                       taskId |-> IdOf(b.tasks[found.candidates[1]])])
            ELSE IF found.task = NoId
            THEN NoReply(IF allTasks(b) = <<>> THEN "empty" ELSE "notfound")
            ELSE Acts([type |-> "delete", taskId |-> IdOf(b.tasks[found.task])])
    IN  reply(tokens(toLowerCase(normalized)), findTaskInMessage(normalized, b))

\* the delete intent
deleteReply(normalized, b) ==
    LET reply(lt, found) ==
            IF tagHead(lt, "remove") > 0 THEN NoReply("usage")
            ELSE IF found.task = NoId /\ found.candidates # <<>>
            THEN Which(found.candidates)
            ELSE IF found.task = NoId
            THEN NoReply(IF allTasks(b) = <<>> THEN "empty" ELSE "notfound")
            ELSE Acts([type |-> "delete", taskId |-> IdOf(b.tasks[found.task])])
    IN  reply(tokens(toLowerCase(normalized)), findTaskInMessage(normalized, b))

\* /a.*(b1|b2)/
thenAny(lower, a, bs) ==
    \E i \in occurrencesOf(lower, a) :
        \E w \in bs : \E j \in occurrencesOf(lower, w) : j >= i + Len(a)

\* the question-and-answer fallback: the intent that answers
answerKind(lower) ==
    LET lt == tokens(lower) IN
    IF startsWithAny(lower, {"hi", "hello", "hey", "howdy", "greetings", "sup", "yo",
                             "good "})
    THEN "greeting"
    ELSE IF includesAny(lower, {"what can you", "help", "commands", "capabilities",
                                "how do", "what do you", "features"})
    THEN "help"
    ELSE IF includesAny(lower, {"summary", "overview", "status"})
            \/ thenAny(lower, "how", {"board", "doing", "look"})
            \/ thenAny(lower, "what", {"going"})
    THEN "summary"
    ELSE IF includesAny(lower, {"overdue", "late", "behind", "missed"})
            \/ \E i \in occurrencesOf(lower, "past") :
                    i + 7 <= Len(lower) /\ SubSeq(lower, i + 5, i + 7) = "due"
    THEN "overdue"
    ELSE IF includesAny(lower, {"priorit", "focus", "suggest", "recommend",
                                "important", "urgent"})
            \/ thenAny(lower, "what", {"should"})
    THEN "prioritize"
    ELSE IF includesAny(lower, {"workload", "busy", "capacity", "how much", "load"})
    THEN "workload"
    ELSE IF includesAny(lower, {"categor", "label", "group"})
            \/ thenAny(lower, "show", {"tag"}) \/ thenAny(lower, "tag", {"distribut"})
            \/ thenAny(lower, "list", {"tag"})
    THEN "tags"
    ELSE IF \/ \E k \in 1..(Len(lt) - 1) :
                  /\ \E v \in {"list", "show", "display"} :
                        Len(lt[k]) >= Len(v)
                        /\ SubSeq(lt[k], Len(lt[k]) - Len(v) + 1, Len(lt[k])) = v
                  /\ \/ startsWith(lt[k + 1], "task")
                     \/ lt[k + 1] = "all" /\ k + 2 <= Len(lt)
                        /\ startsWith(lt[k + 2], "task")
            \/ lower \in {"tasks", "my tasks"}
            \/ includesAny(lower, {"what task do i have", "what tasks do i have"})
    THEN "list"
    ELSE IF includesAny(lower, {"tip", "advice", "productiv", "efficien"})
    THEN "tips"
    ELSE IF includesAny(lower, {"stat", "number", "metric", "count", "data",
                                "analytic"})
    THEN "stats"
    ELSE IF includesAny(lower, {"thank", "thanks", "thx", "appreciate"})
    THEN "thanks"
    ELSE "default"

\* the intents of processMessage, in the order in which it tries them
intentOf(normalized) ==
    LET lower == toLowerCase(normalized)
        lt == tokens(lower)
    IN  IF tagHead(lt, "add") > 0 \/ (Len(lt) >= 2 /\ lt[1] = "tag") THEN "addTags"
        ELSE IF tagHead(lt, "remove") > 0 \/ (Len(lt) >= 2 /\ lt[1] = "untag")
        THEN "removeTags"
        ELSE IF \/ Len(lt) >= 2 /\ lt[1] \in {"create", "add", "make", "new"}
                \/ lower \in {"create", "add", "new task"}
        THEN "create"
        ELSE IF \/ startsWithAny(lower, {"move", "complete", "finish", "mark",
                                         "start", "begin"})
                \/ Len(lt) >= 2 /\ lt[1] = "done" /\ startsWith(lt[2], "with")
        THEN "move"
        ELSE IF startsWithAny(lower, {"change", "set", "update", "edit", "modify",
                                      "rename", "retitle"})
        THEN "edit"
        ELSE IF Len(lt) >= 2 /\ lt[1] \in {"delete", "remove", "trash", "discard",
                                          "drop"}
        THEN "delete"
        ELSE "answer"

\* processMessage(message, board) called on day t
processMessageText(message, b, t) ==
    LET route(normalized, intent) ==
            IF intent = "addTags" THEN addTagsReply(normalized, b)
            ELSE IF intent = "removeTags" THEN removeTagsReply(normalized, b)
            ELSE IF intent = "create" THEN createReply(normalized, b)
            ELSE IF intent = "move" THEN moveReply(normalized, b)
            ELSE IF intent = "edit" THEN editReply(normalized, b, t)
            ELSE IF intent = "delete" THEN deleteReply(normalized, b)
            ELSE NoReply(answerKind(toLowerCase(normalized)))
        classify(normalized) == route(normalized, intentOf(normalized))
    IN  classify(normalizeMessage(message))

----------------------------------------------------------------------------
(* Chatbot: messages typed as text.  Sessions that find a small board in   *)
(* storage, and in which messages are sent and answered.                   *)

TextTask(id, title, columnId, priority, tags) ==
    [id |-> id, title |-> title, priority |-> priority, tags |-> tags,
     createdAt |-> StartTime - sampleTasks[1].age,
     completedAt |-> IF columnId = "done" THEN StartTime - sampleTasks[1].age ELSE Null,
     columnId |-> columnId]

\* a stored board with the tasks of the sequence ts, whose ids are 1..Len(ts)
TextBoard(ts) ==
    [tasks |-> [i \in 1..Len(ts) |-> ts[i]],
     columns |-> MkColumns([c \in ColumnIds |->
                    SelectSeqIn([i \in 1..Len(ts) |-> i],
                                {i \in 1..Len(ts) : ts[i].columnId = c})]),
     columnOrder |-> ColumnOrder]

LoginBoard ==
    TextBoard(<<TextTask(1, "Fix login bug", "todo", "medium", <<"frontend", "urgent">>),
                TextTask(2, "Fix login", "in-progress", "high", <<>>)>>)

ReviewBoard ==
    TextBoard(<<TextTask(1, "Review PR", "todo", "medium", <<>>),
                TextTask(2, "Review PR draft", "todo", "low", <<"docs">>)>>)

TextBoards == {EmptyBoard, LoginBoard, ReviewBoard}

\* the messages typed
TextMessages ==
    {"remove tag frontend from Fix login bug", "add tags UI, design to fix login",
     "untag ui from zebra", "tag urgent for review", "add tag",
     "create task Deploy with tags ui, UI", "add tag ops to Deploy",
     "move Fix login to done", "move Fix login to in progress",
     "complete fix login bug", "start zebra", "mark Review PR as done",
     "move review to done", "change priority of Review PR to high",
     "rename Fix login to Fix logout", "edit review", "delete Fix login",
     "delete zebra", "remove review", "Please list all tasks?", "hello", "summary",
     "What should I focus on?", "thanks", "xyzzy", "  "}

\* the first render of a session that finds the board b stored; the uuids
\* handed out from now on differ from the ids on the board
InitText ==
    /\ \E b \in TextBoards :
          /\ saved = JSONstringify(b)
          /\ board = loadBoard(saved, 1, StartTime)
          /\ nextId = Cardinality(DOMAIN b.tasks)
    /\ now = StartTime
    /\ history = <<>>
    /\ future = <<>>
    /\ editingTask = NoTask
    /\ deleteTaskId = NoId
    /\ isTyping = FALSE
    /\ chatInput = NoInput
    /\ chatBoard = EmptyBoard
    /\ faulted = RenderThrows(board)
    /\ saveTimer = IF RenderThrows(board) THEN NoTimer ELSE board
    /\ ops = 0

\* a message is explored while the mutation it may lead to still can be, and
\* while the uuid is left that the task it may create needs
MaySend(msg) ==
    /\ Explore
    /\ intentOf(normalizeMessage(msg)) = "create" => nextId < MaxId

\* sendMessage: if (!input.trim() || isTyping) return
ChatSendText(msg) ==
    /\ ~faulted
    /\ trim(msg) # ""
    /\ ~isTyping
    /\ isTyping' = TRUE
    /\ chatInput' = [kind |-> "text", text |-> trim(msg)]
    /\ chatBoard' = board
    /\ UNCHANGED <<board, history, future, saveTimer, editingTask, deleteTaskId,
                   now, saved, nextId, faulted, ops>>

\* a reply timer that pushes the captured board whether or not the reply acts
ChatReplyTextAlwaysPushes ==
    /\ ~faulted
    /\ isTyping
    /\ LET run(a) ==
            /\ nextId' = IF a.type = "create" THEN nextId + 1 ELSE nextId
            /\ ops' = IF a.type = "none" THEN ops ELSE CountOp
            /\ IF executeActionThrows(a, board) THEN Crash
               ELSE Commit(executeAction(a, board, chatBoard, nextId + 1, now),
                           pushHistory(<<history, future>>, chatBoard))
       IN  run(processMessageText(chatInput.text, chatBoard, now).action)
    /\ isTyping' = FALSE
    /\ chatInput' = NoInput
    /\ chatBoard' = EmptyBoard
    /\ UNCHANGED <<editingTask, deleteTaskId, now, saved>>

\* the setTimeout callback of sendMessage
ChatReplyText ==
    /\ ~faulted
    /\ isTyping
    /\ LET run(a) ==
            /\ nextId' = IF a.type = "create" THEN nextId + 1 ELSE nextId
            /\ ops' = IF a.type = "none" THEN ops ELSE CountOp
            /\ IF a.type = "none"
               THEN UNCHANGED <<board, history, future, saveTimer, faulted>>
               ELSE IF executeActionThrows(a, board) THEN Crash
               ELSE Commit(executeAction(a, board, chatBoard, nextId + 1, now),
                           pushHistory(<<history, future>>, chatBoard))
       IN  run(processMessageText(chatInput.text, chatBoard, now).action)
    /\ isTyping' = FALSE
    /\ chatInput' = NoInput
    /\ chatBoard' = EmptyBoard
    /\ UNCHANGED <<editingTask, deleteTaskId, now, saved>>

NextText ==
    \/ \E msg \in TextMessages : MaySend(trim(msg)) /\ ChatSendText(msg)
    \/ ChatReplyText

SpecText == InitText /\ [][NextText]_vars

----------------------------------------------------------------------------
(* Chatbot: every message and its reply.  Sessions in which messages are   *)
(* sent and answered while undo and redo are used; the reply timer fires   *)
(* 400 to 1000 ms after the message was sent.                              *)

\* the reply to msg on board b calls no store function: processMessage throws
\* or returns no action
ReplyIsFree(msg, b) ==
    IF processMessageThrows(msg, b) THEN TRUE
    ELSE processMessage(msg, b).type = "none"

\* a message is explored while the mutation it leads to still can be, or when
\* it leads to none, and while the uuid is left that the task it creates needs
MaySendChat(msg) ==
    /\ Explore \/ ReplyIsFree(msg, board)
    /\ msg.kind = "create" => nextId < MaxId

NextChat ==
    \/ \E msg \in ChatInputs(board) : MaySendChat(msg) /\ ChatSend(msg)
    \/ ChatReply
    \/ KeyUndo
    \/ KeyRedo

\* a timer that was started fires
SpecChat == Init /\ [][NextChat]_vars /\ WF_vars(ChatReply)

----------------------------------------------------------------------------
(* Loading: sessions that find anything at all under STORAGE_KEY *)

LoadBlobs ==
    {NoBlob, GarbageBlob, JSONstringify(JsonNull), JSONstringify(JsonOther),
     JSONstringify(EmptyBoard)}

InitLoad == \E blob \in LoadBlobs : InitFrom(blob)

SpecLoad == InitLoad /\ [][NextSave]_vars

----------------------------------------------------------------------------
(* Properties *)

\* how often id occurs in a task-id list
Occurrences(ids, id) == Cardinality({i \in 1..Len(ids) : ids[i] = id})

\* the board invariant of the data model: every task is listed exactly once, in
\* the column its columnId names, and every listed id has a task record
WellFormed(b) ==
    /\ \A id \in DOMAIN b.tasks :
          /\ Has(b.tasks[id], "columnId")
          /\ \A c \in ColumnIds :
                Occurrences(b.columns[c].taskIds, id)
                    = IF b.tasks[id].columnId = c THEN 1 ELSE 0
    /\ \A c \in ColumnIds : Range(b.columns[c].taskIds) \subseteq DOMAIN b.tasks

\* a step in which a store mutation was issued and the tree survived it
MutationStep == ops' = ops + 1 /\ ~faulted'

\* a step in which the pending reply timer fired
ReplyStep == isTyping /\ ~isTyping'

\* the action the pending reply timer will apply
PendingAction == processMessage(chatInput, chatBoard)

\* C1: in every reachable board every task id is in exactly one column's
\* taskIds, exactly once, that column is the task's columnId, and every listed
\* id exists in tasks.
C1_BoardWellFormed == ~faulted => WellFormed(board)

\* since the message was sent the task it refers to was moved to another column
\* or removed, and every other task is as it was
ReferencedTaskChanged ==
    LET id == PendingAction.taskId IN
    /\ PendingAction.type \in {"move", "update", "delete"}
    /\ WellFormed(chatBoard) /\ WellFormed(board)
    /\ \/ id \notin DOMAIN board.tasks
       \/ board.tasks[id].columnId # chatBoard.tasks[id].columnId
    /\ (DOMAIN chatBoard.tasks) \ {id} = (DOMAIN board.tasks) \ {id}
    /\ \A o \in (DOMAIN board.tasks) \ {id} : board.tasks[o] = chatBoard.tasks[o]

\* C2: when the user moved or removed the referenced task between sending a
\* chat command and the delayed reply, the reply is applied without a fault,
\* the board stays well-formed and no other task leaves the column list it
\* was in.
C2_LatencyHarmless ==
    [][(ReplyStep /\ ReferencedTaskChanged)
        => /\ ~faulted'
           /\ WellFormed(board')
           /\ \A c \in ColumnIds :
                \A id \in Range(board.columns[c].taskIds) \ {PendingAction.taskId} :
                    id \in Range(board'.columns[c].taskIds)]_vars

\* C3: the snapshot a mutation pushes onto the undo history is the board the
\* mutation's change was applied to.
C3_SnapshotIsPreState ==
    [][MutationStep => (Len(history') > 0 /\ Last(history') = board)]_vars

\* C4: an undo immediately after a mutation applied to board B makes the
\* current board B again.
C4_UndoRestoresPrior ==
    [][MutationStep => undoStore(<<board', history', future'>>)[1] = board]_vars

RECURSIVE undoTimes(_, _)
undoTimes(s, k) == IF k = 0 THEN s ELSE undoTimes(undoStore(s), k - 1)

RECURSIVE redoTimes(_, _)
redoTimes(s, k) == IF k = 0 THEN s ELSE redoTimes(redoStore(s), k - 1)

\* C5: k undos followed by k redos (k up to the history length) restore the
\* board, the undo history and the redo stack.
C5_UndoRedoRoundTrip ==
    \A k \in 1..Len(history) :
        redoTimes(undoTimes(<<board, history, future>>, k), k)
            = <<board, history, future>>

\* C5 witness: right after a second mutation, with two boards to undo
C5_Witness ==
    /\ ~faulted
    /\ Len(history) = 2 /\ future = <<>>
    /\ history[1] # history[2] /\ board # history[2]

\* C6: the undo history never holds more than 50 boards, and a mutation applied
\* with 50 stored discards the oldest.
C6_HistoryCapped ==
    /\ [](Len(history) <= HistoryKeep + 1)
    /\ [][(ConfirmClear /\ Len(history) = HistoryKeep + 1)
            => history' = Append(Tail(history), board)]_vars

\* C6 witness: the history is full and the seed board, pushed first, is gone
C6_Witness ==
    /\ Len(history) = HistoryKeep + 1
    /\ history[1] = EmptyBoard
    /\ future = <<>>

\* C7: a mutation leaves canRedo false and canUndo true; canUndo and canRedo
\* tell whether the stacks are non-empty; undo with nothing to undo and redo
\* with nothing to redo change nothing.
C7_RedoClearedByMutation ==
    /\ [][MutationStep => (Len(future') = 0 /\ Len(history') > 0)]_vars
    /\ [](/\ canUndo <=> history # <<>>
          /\ canRedo <=> future # <<>>
          /\ ~canUndo => undoStore(<<board, history, future>>) = <<board, history, future>>
          /\ ~canRedo => redoStore(<<board, history, future>>) = <<board, history, future>>)

\* C7 witness: a mutation was issued after an undo (the redo stack was dropped)
C7_Witness ==
    /\ ~faulted
    /\ ops = 2 /\ Len(history) = 1 /\ future = <<>>
    /\ board # history[1]

\* updateTask or moveTask is being called with an id that is not in tasks:
\* by the reply timer, or by saving the edit modal
VanishedTarget ==
    \/ /\ ReplyStep
       /\ PendingAction.type \in {"move", "update"}
       /\ PendingAction.taskId \notin DOMAIN board.tasks
    \/ /\ editingTask # NoTask /\ editingTask' = NoTask /\ ops' = ops + 1
       /\ IdOf(editingTask) \notin DOMAIN board.tasks

\* C8: updateTask and moveTask with an id that is no longer in tasks leave the
\* tasks and every column's list unchanged and do not fault.
C8_VanishedIdIsNoOp ==
    [][VanishedTarget => (~faulted' /\ board' = board)]_vars

\* deleteTask is being called: by the delete confirmation or by the reply timer
DeleteCall(id) ==
    \/ deleteTaskId = id /\ id # NoId /\ deleteTaskId' = NoId /\ ops' = ops + 1
    \/ ReplyStep /\ PendingAction.type = "delete" /\ PendingAction.taskId = id

\* C9: deleteTask removes the record and the id from its column and nothing
\* else; for an id that does not exist the board, the undo history and the redo
\* stack are as before the call.
C9_DeleteMissingLeavesStoreAlone ==
    [][\A id \in 0..MaxId :
          DeleteCall(id) =>
            IF id \in DOMAIN board.tasks
            THEN ~faulted' =>
                    /\ DOMAIN board'.tasks = (DOMAIN board.tasks) \ {id}
                    /\ \A o \in DOMAIN board'.tasks : board'.tasks[o] = board.tasks[o]
                    /\ \A c \in ColumnIds :
                          board'.columns[c].taskIds =
                            IF c = board.tasks[id].columnId
                            THEN FilterOut(board.columns[c].taskIds, id)
                            ELSE board.columns[c].taskIds
            ELSE UNCHANGED <<board, history, future>>]_vars

\* C10: a task's completedAt is set exactly when its columnId is 'done'.
C10_CompletedIffDone ==
    ~faulted =>
        \A id \in DOMAIN board.tasks :
            CompletedTruthy(board.tasks[id]) <=> ColOf(board.tasks[id]) = "done"
----------------------------------------------------------------------------
(* moveTask *)

\* the arguments moveTask is called with
MoveCalls == (1..MaxId) \X ColumnIds \X ColumnIds \X (0..MaxId)

\* the board after the card is moved back, a day later, to the index it had
\* the step is the call m of moveTask (which leaves the card with the
\* destination as its columnId)
MoveStep(m) ==
    /\ m[1] \in DOMAIN board'.tasks
    /\ ColOf(board'.tasks[m[1]]) = m[3]
    /\ MoveTask(m[1], m[2], m[3], m[4])

MovedBack(id, s, d) ==
    moveTaskUpdater(board', id, d, s, IndexOf(board.columns[s].taskIds, id), now')

\* C11: moveTask sets completedAt to the current time when the destination is
\* 'done' and it was null, to null when the destination is not 'done', and
\* leaves it alone when the destination is 'done' and it was set; a task moved
\* done -> elsewhere -> done has the time of its re-entry, not its original
\* completedAt.
C11_MoveSetsCompletedAt ==
    /\ [][\A m \in MoveCalls :
            MoveStep(m) =>
                LET was == board.tasks[m[1]].completedAt
                    is == board'.tasks[m[1]].completedAt
                IN  /\ (m[3] = "done" /\ was = Null) => is = now
                    /\ m[3] # "done" => is = Null
                    /\ (m[3] = "done" /\ was # Null) => is = was]_vars
    /\ [][\A m \in MoveCalls :
            (/\ m[3] = "done"
             /\ board.tasks[m[1]].columnId # "done"
             /\ history # <<>>
             /\ Last(history).tasks[m[1]].columnId = "done"
             /\ MoveStep(m))
            => /\ board'.tasks[m[1]].completedAt = now
               /\ board'.tasks[m[1]].completedAt
                    # Last(history).tasks[m[1]].completedAt]_vars

\* C11 witness: a task was moved out of 'done' and back in
C11_Witness ==
    /\ Len(history) = 2
    /\ \E id \in DOMAIN board.tasks :
          /\ history[1].tasks[id].columnId = "done"
          /\ history[2].tasks[id].columnId = "todo"
          /\ board.tasks[id].columnId = "done"
          /\ board.tasks[id].completedAt = now - 1
          /\ history[1].tasks[id].completedAt < StartTime

\* C12: moving a card from index j of column A to column B and then back to
\* index j of A restores every column's list and the card's columnId.
C12_MoveRoundTripRestoresLists ==
    [][\A m \in MoveCalls :
          MoveStep(m) =>
              LET back == MovedBack(m[1], m[2], m[3])
              IN  /\ \A c \in ColumnIds :
                        back.columns[c].taskIds = board.columns[c].taskIds
                  /\ back.tasks[m[1]].columnId = m[2]]_vars

\* C12 witness: the second card of a full list has left for another column
C12_Witness ==
    /\ Len(history) = 1
    /\ \E c \in ColumnIds : \E d \in ColumnIds \ {c} :
          LET was == history[1].columns[c].taskIds
          IN  /\ Len(was) = MaxId
              /\ board.columns[c].taskIds = FilterOut(was, was[2])
              /\ board.columns[d].taskIds = <<was[2]>>

\* C13 as stated: after the move and the move back, completedAt has its
\* original value only if A and B are both 'done' or both not 'done'.
C13_RoundTripOnlyIfSameTerminality ==
    [][\A m \in MoveCalls :
          (/\ MoveStep(m)
           /\ MovedBack(m[1], m[2], m[3]).tasks[m[1]].completedAt
                    = board.tasks[m[1]].completedAt)
          => ((m[2] = "done") <=> (m[3] = "done"))]_vars

\* C13 amended: after the move and the move back, completedAt is null when A is
\* not 'done' (whatever B is); when A and B are both 'done' it is the value it
\* had, if it had one; when A is 'done' and B is not, it is the time of the
\* move back.
C13_CompletedAtAfterRoundTrip ==
    [][\A m \in MoveCalls :
          MoveStep(m) =>
              LET was == board.tasks[m[1]].completedAt
                  back == MovedBack(m[1], m[2], m[3]).tasks[m[1]].completedAt
              IN  back = IF m[2] # "done" THEN Null
                         ELSE IF m[3] # "done" THEN now + 1
                         ELSE IF was # Null THEN was ELSE now]_vars

\* C13 witness: a completed task has been moved out of 'done', and another one
\* reordered inside it
C13_Witness ==
    /\ Len(history) = 2
    /\ Len(history[1].columns["done"].taskIds) = MaxId
    /\ Len(history[2].columns["done"].taskIds) = MaxId - 1
    /\ Len(board.columns["done"].taskIds) = MaxId - 1
    /\ board.columns["done"].taskIds # history[2].columns["done"].taskIds

----------------------------------------------------------------------------
(* updateTask, addTask, clearBoard and resetBoard *)

\* the board handleSaveTask hands to updateTask when the modal is saved with
\* column c: the one its moveTask call produced, if it made one
BeforeUpdate(c) ==
    IF ColOf(editingTask) # c
    THEN moveTaskUpdater(board, IdOf(editingTask), ColOf(editingTask), c,
                         Len(board.columns[c].taskIds), now)
    ELSE board

\* C15: updateTask changes nothing but the record of the task it names: every
\* column's taskIds stays as it was, also when the updates carry a columnId,
\* the record's id and createdAt stay, and so does every other task.
C15_UpdateTouchesOneRecord ==
    [][\A c \in InColumns :
          (SaveEdit(c) /\ ~faulted') =>
              LET eid == IdOf(editingTask)
                  b1 == BeforeUpdate(c)
              IN  /\ \A k \in ColumnIds :
                        board'.columns[k].taskIds = b1.columns[k].taskIds
                  /\ (DOMAIN board'.tasks) \ {eid} = (DOMAIN b1.tasks) \ {eid}
                  /\ \A o \in (DOMAIN b1.tasks) \ {eid} :
                        board'.tasks[o] = b1.tasks[o]
                  /\ eid \in DOMAIN b1.tasks =>
                        /\ IdOf(board'.tasks[eid]) = IdOf(b1.tasks[eid])
                        /\ Has(b1.tasks[eid], "createdAt") =>
                              board'.tasks[eid].createdAt = b1.tasks[eid].createdAt
                  /\ board'.tasks[eid].columnId = c]_vars

\* C15 witness: updateTask stored a columnId other than the column that lists
\* the card, and the lists kept the card where it was
C15_Witness ==
    /\ ~faulted
    /\ editingTask = NoTask
    /\ \E id \in DOMAIN board.tasks :
          /\ id \in Range(board.columns["todo"].taskIds)
          /\ ColOf(board.tasks[id]) = "done"

\* addTask is being called for column c: by the add modal or by the reply timer
AddCall(c) ==
    \/ SaveNewTask(c)
    \/ ChatReply /\ PendingAction.type = "create" /\ PendingAction.columnId = c

\* C16: addTask adds one task under an id no task has, the id it returns (the
\* record's id), puts that id last in the column's list, sets completedAt
\* exactly when the column is 'done', and leaves every other task and column
\* as it was.
C16_AddAppendsOneTask ==
    [][\A c \in ColumnIds :
          AddCall(c) =>
              LET id == nextId' IN
              /\ id \notin DOMAIN board.tasks
              /\ DOMAIN board'.tasks = (DOMAIN board.tasks) \cup {id}
              /\ \A o \in DOMAIN board.tasks : board'.tasks[o] = board.tasks[o]
              /\ board'.tasks[id].id = id
              /\ board'.tasks[id].columnId = c
              /\ board'.tasks[id].createdAt = now
              /\ (board'.tasks[id].completedAt # Null) <=> (c = "done")
              /\ board'.columns[c].taskIds = Append(board.columns[c].taskIds, id)
              /\ \A k \in ColumnIds \ {c} :
                    board'.columns[k].taskIds = board.columns[k].taskIds]_vars

\* C16 witness: the newest task is the last of several in 'done', completed now
C16_Witness ==
    /\ ~faulted
    /\ nextId \in DOMAIN board.tasks
    /\ Len(board.columns["done"].taskIds) > 1
    /\ Last(board.columns["done"].taskIds) = nextId
    /\ board.tasks[nextId].completedAt = now

\* C17: clearBoard and resetBoard push the board they replace onto the undo
\* history; after clearBoard there are no tasks, the three columns are empty
\* and columnOrder is as before; an undo right after either gives back the
\* board that was replaced.
C17_ClearAndResetAreUndoable ==
    [][/\ ConfirmClear =>
            /\ Len(history') > 0 /\ Last(history') = board
            /\ DOMAIN board'.tasks = {}
            /\ DOMAIN board'.columns = ColumnIds
            /\ \A c \in ColumnIds :
                  board'.columns[c].id = c /\ board'.columns[c].taskIds = <<>>
            /\ board'.columnOrder = board.columnOrder
            /\ undoStore(<<board', history', future'>>)[1] = board
       /\ ConfirmReset =>
            /\ Len(history') > 0 /\ Last(history') = board
            /\ undoStore(<<board', history', future'>>)[1] = board]_vars

\* C17 witness: a board with tasks was cleared and the clear was undone
C17_Witness ==
    /\ ~faulted
    /\ future = <<clearedBoard>>
    /\ DOMAIN board.tasks # {}
----------------------------------------------------------------------------
(* Persistence *)

\* C18: what the auto-save timer or a manual save writes is the board in
\* memory at that moment, never an older one; once the timer has fired and the
\* board has not changed since, storage holds the board in memory; and a
\* pending timer that is allowed to fire leads to storage holding the board.
C18_StorageCatchesUp ==
    /\ [][(SaveTimerFires \/ ManualSave) => saved' = JSONstringify(board)]_vars
    /\ []((~faulted /\ saveTimer = NoTimer) => saved = JSONstringify(board))
    /\ ((saveTimer # NoTimer) ~> (saved = JSONstringify(board) \/ faulted))

\* C18 witness: a mutation was undone and the timer has since written the
\* restored board, over the cleared board that clearBoard had written
C18_Witness ==
    /\ ~faulted
    /\ future = <<clearedBoard>>
    /\ saveTimer = NoTimer
    /\ saved = JSONstringify(board)
    /\ board # clearedBoard
\* the blob is absent, is not JSON, or is JSON that is not a board
AbsentOrCorrupt(blob) ==
    \/ blob.kind # "json"
    \/ BoardKeys \ DOMAIN blob.value # {}

\* C19: a session that finds the stored blob absent or corrupt starts, without
\* an error, on a freshly generated seed board that satisfies the board
\* invariant.
C19_CorruptBlobGivesSeed ==
    (history = <<>> /\ future = <<>> /\ AbsentOrCorrupt(saved))
    => /\ ~faulted
       /\ board = createDefaultBoard(1, now)
       /\ WellFormed(board)
\* C20: processMessage is a function of the message and the board alone: the
\* invocation the reply timer makes returns what an invocation with the same
\* message and board returned on the day the session started.
C20_ReplyIndependentOfClock ==
    [][ChatReplyDue =>
         processMessageAt(chatInput, chatBoard, now)
         = processMessageAt(chatInput, chatBoard, StartTime)]_vars

----------------------------------------------------------------------------
(* One edit, one undo step *)

\* C29: saving a modal edit that changes the task's column adds exactly one
\* entry to the undo history, the board before the edit, so that a first undo
\* gives the board before the edit and a second undo gives the board that was
\* on top of the history before the edit.
C29_EditIsOneUndoStep ==
    [][\A c \in InColumns :
          (/\ ColOf(editingTask) # c
           /\ IdOf(editingTask) \in DOMAIN board.tasks
           /\ board.tasks[IdOf(editingTask)] = editingTask
           /\ SaveEdit(c)
           /\ ~faulted')
          => LET once == undoStore(<<board', history', future'>>)
             IN  /\ Len(history') = Len(history) + 1
                 /\ once[1] = board
                 /\ history # <<>> => undoStore(once)[1] = Last(history)]_vars

----------------------------------------------------------------------------
(* Dates and time zones *)

\* C27: at every instant of the current day and under every offset from
\* UTC-12 to UTC+14, the date resolver returns the local calendar day for
\* "today" and that day plus N for "in N days".
C27_TodayIsLocalDay ==
    \A off \in ZoneOffsets : \A hr \in 0..(HoursPerDay - 1) :
        LET h == now * HoursPerDay + hr IN
        /\ parseNaturalDateIn("today", h, off) = LocalDay(h, off)
        /\ parseNaturalDateIn("in 2 days", h, off) = LocalDay(h, off) + 2


----------------------------------------------------------------------------
(* The chatbot's replies to typed messages *)

\* the message of the pending reply timer, as processMessage normalizes it
pendingText == normalizeMessage(chatInput.text)

pendingIntent == intentOf(pendingText)

\* what processMessage will return to the pending reply timer
pendingReply == processMessageText(chatInput.text, chatBoard, now)

\* the text processMessage hands to the task matcher: the task reference of a
\* tag command, the whole message otherwise
referenceText(normalized) ==
    LET intent == intentOf(normalized)
        add == tagCommand(tokens(normalized), "add", "tag", {"to", "on", "for"})
        remove == tagCommand(tokens(normalized), "remove", "untag", {"from", "on"})
    IN  IF intent = "addTags" /\ add # <<>> THEN add[2]
        ELSE IF intent = "removeTags" /\ remove # <<>> THEN remove[2]
        ELSE normalized

\* what the task matcher finds for the pending message
pendingFound == findTaskInMessage(referenceText(pendingText), chatBoard)

TitlesOf(b) == {b.tasks[id].title : id \in DOMAIN b.tasks}

\* C21: for the tag, move, complete, start, edit and delete intents, a message
\* whose task the matcher does not resolve (several candidates, no match, or an
\* empty board) gets a reply without an action, and handling it leaves the
\* board, the undo history and the redo stack as they were.
C21_UnresolvedTaskNoAction ==
    [][(/\ ChatReplyText
        /\ pendingIntent \in {"addTags", "removeTags", "move", "edit", "delete"}
        /\ pendingFound.task = NoId)
       => /\ pendingReply.action = NoAction
          /\ UNCHANGED <<board, history, future>>]_vars

\* C21 witness: after a change of the board, a delete command that names two
\* tasks is waiting for its reply
C21_Witness ==
    /\ isTyping
    /\ history # <<>>
    /\ pendingIntent = "delete"
    /\ pendingFound.task = NoId
    /\ Len(pendingFound.candidates) = 2

\* the named tags of a tag command
namedTags(m) == SelectSeqIn(tagList(m[1]), Range(tagList(m[1])) \ {""})

\* C22: a message that begins with `remove tag(s)`, `untag`, `add tag(s)` or
\* `tag` never yields a delete or a create action; when it has the shape
\* <verb> <tags> from/to <task reference> and the reference resolves to a task
\* T, the action is an update of T whose tags are T's tags without the named
\* ones (remove) or T's tags followed by the new tags not already present (add).
C22_TagCommandsUpdateTags ==
    [][(ChatReplyText /\ pendingIntent \in {"addTags", "removeTags"})
       => LET a == pendingReply.action
              add == tagCommand(tokens(pendingText), "add", "tag", {"to", "on", "for"})
              remove == tagCommand(tokens(pendingText), "remove", "untag",
                                   {"from", "on"})
              T == chatBoard.tasks[pendingFound.task]
          IN  /\ a.type \notin {"delete", "create"}
              /\ (pendingIntent = "removeTags" /\ remove # <<>>
                  /\ pendingFound.task # NoId)
                 => a = [type |-> "update", taskId |-> T.id,
                         updates |-> [tags |->
                            SelectSeqIn(T.tags, Range(T.tags)
                                                \ Range(namedTags(remove)))]]
              /\ (pendingIntent = "addTags" /\ add # <<>> /\ pendingFound.task # NoId)
                 => a = [type |-> "update", taskId |-> T.id,
                         updates |-> [tags |->
                            T.tags \o SelectSeqIn(uniqueOf(namedTags(add)),
                                                  Range(namedTags(add))
                                                  \ Range(T.tags))]]]_vars

\* C23: on every board that chatbot commands lead to, the tags of each task
\* are lower case and no tag occurs twice.
C23_TagsLowercaseUnique ==
    \A id \in DOMAIN board.tasks :
        LET tags == board.tasks[id].tags IN
        /\ \A i \in 1..Len(tags) : tags[i] = toLowerCase(tags[i])
        /\ \A i \in 1..Len(tags) : \A j \in 1..Len(tags) : tags[i] = tags[j] => i = j

\* C24: on a board whose two tasks are titled "Review PR" and "Review PR
\* draft", the message "change priority of Review PR to high" is ambiguous:
\* the reply lists both tasks as candidates and has no action.
C24_ReviewPRIsAmbiguous ==
    (/\ isTyping
     /\ chatInput.text = "change priority of Review PR to high"
     /\ TitlesOf(chatBoard) = {"Review PR", "Review PR draft"}
     /\ Cardinality(DOMAIN chatBoard.tasks) = 2)
    => /\ pendingReply.action = NoAction
       /\ Range(pendingReply.candidates) = DOMAIN chatBoard.tasks

\* the tasks whose lower-case title, of three characters or more, the text
\* contains
SubstringHits(text, b) ==
    {id \in DOMAIN b.tasks :
        /\ Len(b.tasks[id].title) >= 3
        /\ includes(toLowerCase(text), toLowerCase(b.tasks[id].title))}

\* C25: when the reference text has no quoted part and contains the lower-case
\* titles (of three characters or more) of one or several tasks, the matcher
\* resolves to one of them whose title is as long as any of them, and returns
\* no candidates.
C25_LongestSubstringWins ==
    isTyping =>
        LET text == referenceText(pendingText)
            hits == SubstringHits(text, chatBoard)
        IN  (quotedText(text) = "" /\ hits # {})
            => /\ pendingFound.task \in hits
               /\ \A h \in hits : Len(chatBoard.tasks[pendingFound.task].title)
                                  >= Len(chatBoard.tasks[h].title)
               /\ pendingFound.candidates = <<>>

\* C25 witness: the text contains the titles "Fix login bug" and "Fix login",
\* and the matcher resolves to the former
C25_Witness ==
    /\ isTyping
    /\ quotedText(referenceText(pendingText)) = ""
    /\ {chatBoard.tasks[h].title : h \in SubstringHits(referenceText(pendingText),
                                                       chatBoard)}
       = {"Fix login bug", "Fix login"}
    /\ chatBoard.tasks[pendingFound.task].title = "Fix login bug"

\* C26: every move action of a reply has the column of the resolved task as
\* its sourceCol and another column as its destCol; when the resolved task is
\* in the destination column already the reply has no action and the board
\* stays as it was.
C26_MoveLeavesSourceColumn ==
    [][ChatReplyText
       => LET a == pendingReply.action
              dest == moveDest(toLowerCase(pendingText))
          IN  /\ a.type = "move"
                 => /\ pendingFound.task # NoId
                    /\ a.taskId = chatBoard.tasks[pendingFound.task].id
                    /\ a.sourceCol = chatBoard.tasks[pendingFound.task].columnId
                    /\ a.destCol # a.sourceCol
              /\ (/\ pendingIntent = "move"
                  /\ pendingFound.task # NoId
                  /\ chatBoard.tasks[pendingFound.task].columnId = dest)
                 => /\ a = NoAction
                    /\ board' = board]_vars

\* C26 witness: one task has been moved to 'done' by the chatbot, and a command
\* to move another task to the column it is in is waiting for its reply
C26_Witness ==
    /\ isTyping
    /\ Len(history) = 1
    /\ \E id \in (DOMAIN board.tasks) \cap (DOMAIN history[1].tasks) :
          /\ history[1].tasks[id].columnId # "done"
          /\ board.tasks[id].columnId = "done"
          /\ id \in Range(board.columns["done"].taskIds)
    /\ pendingIntent = "move"
    /\ pendingFound.task # NoId
    /\ chatBoard.tasks[pendingFound.task].columnId = moveDest(toLowerCase(pendingText))

\* the kinds of answer of the question-and-answer fallback
AnswerKinds ==
    {"greeting", "help", "summary", "overdue", "prioritize", "workload", "tags",
     "list", "tips", "stats", "thanks", "default"}

\* C28: a message that is a greeting, a request for help, the summary, the
\* overdue tasks, priorities, the workload, the tags, the list of tasks, tips
\* or statistics, thanks, or anything no intent matches, gets a reply without
\* an action, and handling it leaves the board, the undo history and the redo
\* stack as they were.
C28_AnswersChangeNothing ==
    [][(ChatReplyText /\ pendingIntent = "answer")
       => /\ pendingReply.kind \in AnswerKinds
          /\ pendingReply.action = NoAction
          /\ UNCHANGED <<board, history, future>>]_vars

\* C28 witness: after a change of the board, a question about what to focus on
\* is waiting for its reply
C28_Witness ==
    /\ isTyping
    /\ history # <<>>
    /\ pendingIntent = "answer"
    /\ pendingReply.kind = "prioritize"


----------------------------------------------------------------------------
(* Every message is answered *)

\* C30: at most one reply is pending at a time, and every message that was
\* accepted gets its reply: a reply that is pending (isTyping) is eventually
\* delivered, which ends isTyping.
C30_EveryMessageIsAnswered == isTyping ~> ~isTyping
====
